---- MODULE Spec2Model ----
(***************************************************************************)
(* A model of the Rackspace Spot python SDK:                               *)
(*   - the authenticated transport  (client.py, _authenticate and          *)
(*     _make_request) with the client's get methods on top of it,          *)
(*   - the environment manager      (manager.py, create_environment),      *)
(*   - the readiness wait           (utils.py, wait_for_cloudspace_ready). *)
(* The remote API, the token endpoint and the wall clock are the           *)
(* environment: every answer they can give is a nondeterministic choice.   *)
(*   - the cleanup                  (manager.py, cleanup_environment).     *)
(* The parts are specifications over one set of variables: Spec            *)
(* (transport), EnvSpec (manager), WaitSpec / WaitFairSpec (wait) and      *)
(* CleanupSpec (cleanup), StatusSpec (get_environment_status) and          *)
(* MessageSpec (the message of the API error), RoundTripSpec (the create   *)
(* payloads and their parsing), MapSpec (the parsing of API documents),    *)
(* ConcurrentSpec (two callers of one client), LifecycleSpec (cleanup of   *)
(* what create_environment returned) and RerunSpec (a repeated cleanup).   *)
(***************************************************************************)
EXTENDS Integers, Sequences, FiniteSets, TLC

VARIABLES
    \* ---- transport (client.py) ----
    tpc,            \* position inside the client call in progress
    req,            \* the call in progress: [op, kind, authenticated]
    access_token,   \* self.access_token: {} is None, {n} the n-th issued token
    header_token,   \* session.headers['Authorization']: {} absent, {n} 'Bearer n'
    tokens_issued,  \* number of id_tokens the token endpoint has issued
    sends,          \* session.request calls made by the call in progress
    auths,          \* _authenticate calls made by the call in progress
    first,          \* first response of the call in progress ({} none yet)
    second,         \* response of the replayed request ({} none)
    response,       \* the local variable `response` of _make_request
    result,         \* what the client call gave its caller
    wire,           \* the Authorization header of each request the call in
                    \* progress has sent, in order
    exchange,       \* how the latest token exchange ended
    \* ---- manager (manager.py) ----
    epc,            \* position inside create_environment
    einput,         \* its arguments
    ecloudspace,    \* its local variable `cloudspace` ({} is None)
    eresult,        \* its local variable `result`
    eindex,         \* position in the pool list being created
    eget,           \* what its get_cloudspace call gave: outcome and phase
    eerror,         \* the exception it raised to its caller
    elog,           \* client calls it has issued, in order
    server_cs,      \* names of the cloudspaces the remote API holds
    preexisting,    \* the first invocation's cloudspace was there before it
    uuid_count,     \* uuid.uuid4() calls made by the invocation so far
    invocations,    \* create_environment calls started so far
    create_cs_total,\* create_cloudspace calls issued over all invocations
    faithful,       \* every cloudspace get/create so far was answered from
                    \* the API's state, with no fault
    same_name,      \* every invocation so far had the same cloudspace_name
    pools_created,  \* the API holds pools that earlier invocations created
    \* ---- readiness wait (utils.py) ----
    wpc,            \* position inside wait_for_cloudspace_ready
    timeout,        \* its argument, in clock ticks
    poll_interval,  \* its argument, in clock ticks
    start_time,     \* its local variable
    clock,          \* time.time()
    last_obs,       \* what its latest get_cloudspace call gave
    wresult,        \* what it gave its caller
    polls,          \* get_cloudspace calls it has made
    not_found_polls,\* those of them that were answered 404
    sleeps,         \* time.sleep calls it has made
    \* ---- cleanup (manager.py) ----
    cpc,            \* position inside cleanup_environment
    cres,           \* its argument `resources`, by the names it holds
    cstage,         \* which of its three blocks it is in (index in StageOrder)
    clistings,      \* the names each list call returned, by block
    cqueue,         \* delete calls the loops of the block have yet to make
    clog,           \* client calls it has issued, in order
    cresult,        \* what it gave its caller
    cprior,         \* the cleanup before, when it returned True and this
                    \* one has so far listed what it left: [res, left]
    \* ---- status (manager.py) ----
    spc,            \* position inside get_environment_status
    sstage,         \* which of its three list calls is next
    slists,         \* what its list calls returned, by section
    slog,           \* client calls it has issued, in order
    sresult,        \* what it gave its caller
    \* ---- error message (client.py, _make_request lines 120-133) ----
    mpc,            \* position: "idle", "response" or "raised"
    mstatus,        \* status of the response that is not ok
    mbody,          \* its body
    mmessage,       \* the message of the error raised for it
    \* ---- create payloads (client.py, create_* and _parse_*) ----
    rpc,            \* position: "idle", "record", "wire" or "parsed"
    rrecord,        \* the record given to the create method
    rwire,          \* the payload built from it
    rparsed,        \* the record parsed from that payload
    \* ---- parsing of API documents (client.py, _parse_*) ----
    ppc,            \* position: "idle", "document" or "mapped"
    pdoc,           \* the document to parse: its kind and the keys it has
    pout,           \* what the parse function gave its caller
    \* ---- two callers of one client (client.py, _make_request) ----
    kpc,            \* position of each caller inside _make_request
    kheader,        \* the bearer token in the session's headers
    kissued,        \* tokens the token endpoint has issued
    kwire           \* the tokens each caller's sends of this call carried

tvars == <<tpc, req, access_token, header_token, tokens_issued, sends, auths,
           first, second, response, result, wire, exchange>>
evars == <<epc, einput, ecloudspace, eresult, eindex, eget, eerror, elog,
           server_cs, preexisting, uuid_count, invocations, create_cs_total,
           faithful, same_name, pools_created>>
wvars == <<wpc, timeout, poll_interval, start_time, clock, last_obs, wresult,
           polls, not_found_polls, sleeps>>
cvars == <<cpc, cres, cstage, clistings, cqueue, clog, cresult, cprior>>
\* the variables of the parts added to the first three
svars == <<spc, sstage, slists, slog, sresult>>
mvars == <<mpc, mstatus, mbody, mmessage>>
rvars == <<rpc, rrecord, rwire, rparsed>>
pvars == <<ppc, pdoc, pout>>
kvars == <<kpc, kheader, kissued, kwire>>
yvars == <<pvars, kvars>>
xvars == <<cvars, svars, mvars, rvars, yvars>>
vars == <<tvars, evars, wvars, xvars>>

(***************************************************************************)
(* Bounds of the model.                                                    *)
(***************************************************************************)
\* the token endpoint issues at most this many tokens in one behaviour
MaxTokens == 3

(***************************************************************************)
(* Values shared by the three parts.                                       *)
(***************************************************************************)
\* Optional[...] values: {} is None, {v} is the value v.
None == {}
Some(v) == {v}

\* HTTP status codes the remote API answers with in the model.
Statuses == {200, 304, 401, 403, 404, 500}

\* requests.Response.ok: raise_for_status() raises for 400 <= status < 600.
ResponseOk(status) == ~(status >= 400 /\ status < 600)

\* What session.request can produce: a response with a status, or a
\* requests.exceptions.RequestException (DNS, refused connection, timeout).
HttpResponse(status) == [net_error |-> FALSE, status |-> status]
NetworkFailure == [net_error |-> TRUE, status |-> 0]
Answers == {HttpResponse(s) : s \in Statuses} \cup {NetworkFailure}

\* The answers a client call can end with, as the manager and the wait see
\* them: 500 stands for every failure status but 404 (a 401 that is left
\* after the replay, a 403), NetworkFailure also for a failed
\* re-authentication, which raises the same APIError without status code.
FinalAnswers == {HttpResponse(s) : s \in {200, 304, 404, 500}}
                \cup {NetworkFailure}

\* The SDK has one exception class (classes.py); status_code is Optional[int].
APIError(message, status_code) ==
    [outcome |-> "raise", class |-> "RackspaceSpotAPIError",
     status_code |-> status_code, value |-> message]
\* An exception of another class (a builtin or a requests one): no status_code.
OtherError(class) ==
    [outcome |-> "raise", class |-> class, status_code |-> None,
     value |-> "none"]
Returned(value) ==
    [outcome |-> "return", class |-> "none", status_code |-> None,
     value |-> value]
NoResult ==
    [outcome |-> "none", class |-> "none", status_code |-> None,
     value |-> "none"]

(***************************************************************************)
(* Transport: RackspaceSpotClient._authenticate and ._make_request.        *)
(***************************************************************************)
\* Answers of the token endpoint to the refresh-token exchange.
AuthOutcomes == {"id_token", "no_id_token", "http_error", "net_error"}

\* The client methods, by the resource kind they address.  Every one of them
\* calls _make_request with authenticated left at its default True; the last
\* two entries are direct _make_request calls.
Kinds == {"cloudspace", "spotnodepool", "ondemandnodepool", "region",
          "serverclass"}
Requests ==
    {[op |-> "get", kind |-> k, authenticated |-> TRUE] : k \in Kinds}
    \cup {[op |-> o, kind |-> "cloudspace", authenticated |-> TRUE] :
             o \in {"create", "delete"}}
    \cup {[op |-> "request", kind |-> "raw", authenticated |-> a] :
             a \in BOOLEAN}
NoRequest == [op |-> "none", kind |-> "none", authenticated |-> TRUE]

\* NeedsReauth as it would be if every credential failure were retried.
NeedsReauth_Forbidden(status, authenticated) ==
    status \in {401, 403} /\ authenticated

\* line 109: the condition under which the request is re-authenticated and
\* replayed.
NeedsReauth(status, authenticated) == status = 401 /\ authenticated

\* AfterReplay as it would be if lines 109-118 were a loop.
AfterReplay_Loop(status, authenticated) ==
    IF status = 401 /\ authenticated THEN "authenticate" ELSE "check"

\* lines 112-118 are not in a loop: whatever the replayed request answers
\* goes to the check of line 120.
AfterReplay(status, authenticated) == "check"

\* MakeRequestOutcome as it would be if a 404 were left to the caller, as
\* the test of get_cloudspace line 292 expects.
MakeRequestOutcome_Pass404(status) ==
    IF ~ResponseOk(status) /\ status # 404
    THEN APIError("API request failed with status", Some(status))
    ELSE Returned("response")

\* lines 120-135: the outcome of _make_request for the response it ends with.
MakeRequestOutcome(status) ==
    IF ~ResponseOk(status)
    THEN APIError("API request failed with status", Some(status))
    ELSE Returned("response")

\* The body of a response: the API answers a 200 with the resource document
\* and a failure with a JSON Status document; a response that is ok without
\* being a 200 (a 3xx) carries no JSON at all.
HasJson(status) == status # 304
HasResource(status) == status = 200

\* What the client method makes of the response _make_request returned.
\* The list methods (lines 250-286, 394-403, 477-486) call response.json()
\* and parse the items of the document.
\* get_cloudspace (lines 288-326) calls response.json(), then tests for 404;
\* the other get and the create methods parse the document at once (a
\* document without metadata.name is a KeyError); delete (lines 358-361)
\* reads nothing of the response and returns True.
ClientOutcome(r, status) ==
    CASE r.op \in {"get", "create"} /\ ~HasJson(status) ->
            OtherError("JSONDecodeError")
      [] r.op = "get" /\ r.kind = "cloudspace" /\ status = 404 ->
            Returned("None")
      [] r.op \in {"get", "create"} /\ ~HasResource(status) ->
            OtherError("KeyError")
      [] r.op \in {"get", "create"} -> Returned("record")
      [] r.op = "delete" -> Returned("True")
      [] r.op = "list" /\ ~HasJson(status) -> OtherError("JSONDecodeError")
      [] r.op = "list" -> Returned("list")
      [] OTHER -> Returned("response")

\* A whole client call, for the answer its last session.request got: lines
\* 137-138 turn a RequestException into an APIError without status code.
ClientCall(r, a) ==
    IF a.net_error THEN APIError("Request failed", None)
    ELSE LET out == MakeRequestOutcome(a.status) IN
         IF out.outcome = "raise" THEN out ELSE ClientOutcome(r, a.status)

\* The Authorization header of a request as it leaves: "Bearer" with the
\* session's token, "empty" for the '' that overrides it, "absent" when
\* there is none.
BearerAuth(n) == [scheme |-> "Bearer", token |-> n]
EmptyAuth == [scheme |-> "empty", token |-> 0]
AbsentAuth == [scheme |-> "absent", token |-> 0]

\* WireAuthorization as it would be if the session's header were always sent.
WireAuthorization_Session(header, authenticated) ==
    IF header = None THEN AbsentAuth
    ELSE BearerAuth(CHOOSE n \in header : TRUE)

\* lines 95-105: session.request merges the headers it is given over
\* session.headers; an unauthenticated request is given Authorization ''.
WireAuthorization(header, authenticated) ==
    IF ~authenticated THEN EmptyAuth
    ELSE IF header = None THEN AbsentAuth
    ELSE BearerAuth(CHOOSE n \in header : TRUE)

\* AuthenticateError as it would be if the failure of the token endpoint
\* kept its HTTP status.
AuthenticateError_WithStatus(o) ==
    IF o = "no_id_token" THEN APIError("Failed to obtain access token", None)
    ELSE IF o = "http_error" THEN APIError("Authentication failed", Some(401))
    ELSE APIError("Authentication failed", None)

\* lines 73-74 and 81-82: what _authenticate raises when the exchange does
\* not give an id_token.
AuthenticateError(o) ==
    IF o = "no_id_token" THEN APIError("Failed to obtain access token", None)
    ELSE APIError("Authentication failed", None)

\* A caller starts a client call.
Call(r) ==
    /\ tpc = "idle"
    /\ tpc' = "send"
    /\ req' = r
    /\ sends' = 0
    /\ auths' = 0
    /\ first' = None
    /\ second' = None
    /\ response' = None
    /\ result' = NoResult
    /\ wire' = <<>>
    /\ UNCHANGED <<access_token, header_token, tokens_issued, exchange>>
    /\ UNCHANGED <<evars, wvars, xvars>>

\* lines 100-107: the first session.request.
Send(a) ==
    /\ tpc = "send"
    /\ sends' = sends + 1
    /\ wire' = Append(wire, WireAuthorization(header_token,
                                              req.authenticated))
    /\ IF a.net_error
       THEN \* line 137: RequestException -> APIError without status code
            /\ tpc' = "done"
            /\ result' = ClientCall(req, a)
            /\ UNCHANGED <<first, response>>
       ELSE /\ first' = Some(a.status)
            /\ response' = Some(a.status)
            /\ tpc' = IF NeedsReauth(a.status, req.authenticated)
                      THEN "authenticate" ELSE "check"
            /\ UNCHANGED result
    /\ UNCHANGED <<req, access_token, header_token, tokens_issued, auths,
                   second, exchange>>
    /\ UNCHANGED <<evars, wvars, xvars>>

\* line 111 and lines 51-82: _authenticate called from _make_request.
Authenticate(o) ==
    /\ tpc = "authenticate"
    /\ auths' = auths + 1
    /\ exchange' = o
    /\ CASE o = "id_token" ->
              /\ tokens_issued < MaxTokens
              /\ tokens_issued' = tokens_issued + 1
              /\ access_token' = Some(tokens_issued + 1)
              /\ header_token' = Some(tokens_issued + 1)
              /\ tpc' = "replay"
              /\ UNCHANGED result
         [] o = "no_id_token" ->
              \* line 71 assigns None before line 73 raises
              /\ access_token' = None
              /\ tpc' = "done"
              /\ result' = AuthenticateError(o)
              /\ UNCHANGED <<header_token, tokens_issued>>
         [] OTHER ->
              \* raise_for_status or the post itself raised: line 81
              /\ tpc' = "done"
              /\ result' = AuthenticateError(o)
              /\ UNCHANGED <<access_token, header_token, tokens_issued>>
    /\ UNCHANGED <<req, sends, first, second, response, wire>>
    /\ UNCHANGED <<evars, wvars, xvars>>

\* lines 112-118: the replayed session.request.
Replay(a) ==
    /\ tpc = "replay"
    /\ sends' = sends + 1
    \* lines 112-118 pass no headers: the session's own are sent
    /\ wire' = Append(wire, WireAuthorization(header_token, TRUE))
    /\ IF a.net_error
       THEN /\ tpc' = "done"
            /\ result' = ClientCall(req, a)
            /\ UNCHANGED <<second, response>>
       ELSE /\ second' = Some(a.status)
            /\ response' = Some(a.status)
            /\ tpc' = AfterReplay(a.status, req.authenticated)
            /\ UNCHANGED result
    /\ UNCHANGED <<req, access_token, header_token, tokens_issued, auths,
                   first, exchange>>
    /\ UNCHANGED <<evars, wvars, xvars>>

\* lines 120-135, then the rest of the client method.
Check ==
    /\ tpc = "check"
    /\ \E status \in response : result' = ClientCall(req, HttpResponse(status))
    /\ tpc' = "done"
    /\ UNCHANGED <<req, access_token, header_token, tokens_issued, sends,
                   auths, first, second, response, wire, exchange>>
    /\ UNCHANGED <<evars, wvars, xvars>>

\* get_price_history (lines 545-562) does not go through _make_request: it
\* calls requests.get, outside the session, and tests response.ok itself.
PriceHistoryRequest ==
    [op |-> "get", kind |-> "pricehistory", authenticated |-> FALSE]

PriceHistoryOutcome(a) ==
    IF a.net_error THEN OtherError("RequestException")
    ELSE IF ~ResponseOk(a.status)
    THEN APIError("Failed to get price history", Some(a.status))
    ELSE IF ~HasJson(a.status) THEN OtherError("JSONDecodeError")
    ELSE IF ~HasResource(a.status) THEN OtherError("KeyError")
    ELSE Returned("record")

GetPriceHistory(a) ==
    /\ tpc = "idle"
    /\ tpc' = "done"
    /\ req' = PriceHistoryRequest
    /\ sends' = 1
    /\ auths' = 0
    /\ wire' = <<AbsentAuth>>
    /\ first' = IF a.net_error THEN None ELSE Some(a.status)
    /\ second' = None
    /\ response' = IF a.net_error THEN None ELSE Some(a.status)
    /\ result' = PriceHistoryOutcome(a)
    /\ UNCHANGED <<access_token, header_token, tokens_issued, exchange>>
    /\ UNCHANGED <<evars, wvars, xvars>>

\* The caller takes the result; the client is ready for the next call.
Finish ==
    /\ tpc = "done"
    /\ tpc' = "idle"
    /\ UNCHANGED <<req, access_token, header_token, tokens_issued, sends,
                   auths, first, second, response, result, wire, exchange>>
    /\ UNCHANGED <<evars, wvars, xvars>>

\* The client after __init__ (lines 37-49), whose _authenticate succeeded.
TransportInit ==
    /\ tpc = "idle"
    /\ req = NoRequest
    /\ access_token = Some(1)
    /\ header_token = Some(1)
    /\ tokens_issued = 1
    /\ sends = 0
    /\ auths = 0
    /\ first = None
    /\ second = None
    /\ response = None
    /\ result = NoResult
    /\ wire = <<>>
    /\ exchange = "id_token"

(***************************************************************************)
(* Readiness wait: utils.py, wait_for_cloudspace_ready.                    *)
(***************************************************************************)
\* the largest timeout argument, in clock ticks
MaxTimeout == 3
\* the largest poll_interval argument, in clock ticks
MaxPollInterval == 2
\* the longest a get_cloudspace call takes, and the latest the wait starts
MaxLatency == 1

Timeouts == (-1) .. MaxTimeout
PollIntervals == 1 .. MaxPollInterval

\* status.phase and status.health of a cloudspace: Optional[str].
Phases == {None, Some("Provisioning"), Some("Ready"), Some("Failed")}
Healths == {None, Some("Healthy"), Some("Degraded")}

GetCloudspace == [op |-> "get", kind |-> "cloudspace", authenticated |-> TRUE]

\* What one poll sees: the outcome of client.get_cloudspace and, when it
\* returned a record, the record's phase and health.
Observation(out, phase, health) ==
    [result |-> out, phase |-> phase, health |-> health]
NoObservation == Observation(NoResult, None, None)
Observations ==
    {Observation(ClientCall(GetCloudspace, a), None, None) :
        a \in FinalAnswers \ {HttpResponse(200)}}
    \cup {Observation(ClientCall(GetCloudspace, HttpResponse(200)), p, h) :
             p \in Phases, h \in Healths}

\* WithinTimeout as it would be if the clock were compared with the timeout
\* itself.
WithinTimeout_NoStart(now, start, limit) == now < limit

WithinTimeout_Inclusive(now, start, limit) == now - start <= limit

\* line 95: the loop condition, time.time() - start_time < timeout.
WithinTimeout(now, start, limit) == now - start < limit

\* IsReady as it would be if the phase alone decided.
IsReady_PhaseOnly(phase, health) == phase = Some("Ready")

\* line 99
IsReady(phase, health) == phase = Some("Ready") /\ health = Some("Healthy")

\* line 102
IsFailed(phase) == phase = Some("Failed")

\* ExceptAction as it would be if the handler waited on every API error.
ExceptAction_WaitOnAll(e) == "sleep"

\* ExceptAction as it would be without the handler's 404 case.
ExceptAction_RaiseAll(e) == "raised"

ExceptAction_WaitOnStatus(e) ==
    IF e.status_code # None THEN "sleep" ELSE "raised"

\* lines 108-114: the handler of RackspaceSpotAPIError raised inside the try.
ExceptAction(e) == IF e.status_code = Some(404) THEN "sleep" ELSE "raised"

\* line 103
FailedError == APIError("failed to deploy", None)
\* line 116
NotReadyError == APIError("did not become ready within timeout", None)

\* The call: line 93 reads the clock.
WaitCall(t, p) ==
    /\ wpc = "idle"
    /\ timeout' = t
    /\ poll_interval' = p
    /\ start_time' = clock
    /\ wpc' = "test"
    /\ UNCHANGED <<clock, last_obs, wresult, polls, not_found_polls, sleeps>>
    /\ UNCHANGED <<tvars, evars, xvars>>

\* line 95, and line 116 when the loop ends.
WaitTest ==
    /\ wpc = "test"
    /\ IF WithinTimeout(clock, start_time, timeout)
       THEN /\ wpc' = "poll"
            /\ UNCHANGED wresult
       ELSE /\ wpc' = "raised"
            /\ wresult' = NotReadyError
    /\ UNCHANGED <<timeout, poll_interval, start_time, clock, last_obs,
                   polls, not_found_polls, sleeps>>
    /\ UNCHANGED <<tvars, evars, xvars>>

\* lines 96-114, up to the sleep: one get_cloudspace, which takes d ticks,
\* and what the loop body makes of it.
WaitPoll(obs, d) ==
    /\ wpc = "poll"
    /\ clock' = clock + d
    /\ polls' = polls + 1
    /\ not_found_polls' = IF obs.result.status_code = Some(404)
                          THEN not_found_polls + 1 ELSE not_found_polls
    /\ last_obs' = obs
    /\ CASE obs.result.outcome = "raise"
              /\ obs.result.class = "RackspaceSpotAPIError" ->
              /\ wpc' = ExceptAction(obs.result)
              /\ wresult' = IF ExceptAction(obs.result) = "raised"
                            THEN obs.result ELSE wresult
         [] obs.result.outcome = "raise" ->
              \* not a RackspaceSpotAPIError: no handler
              /\ wpc' = "raised"
              /\ wresult' = obs.result
         [] obs.result.value = "None" ->
              \* line 99 reads cloudspace.phase of None
              /\ wpc' = "raised"
              /\ wresult' = OtherError("AttributeError")
         [] IsReady(obs.phase, obs.health) ->
              /\ wpc' = "returned"
              /\ wresult' = obs.result
         [] IsFailed(obs.phase) ->
              /\ wpc' = ExceptAction(FailedError)
              /\ wresult' = IF ExceptAction(FailedError) = "raised"
                            THEN FailedError ELSE wresult
         [] OTHER ->
              /\ wpc' = "sleep"
              /\ UNCHANGED wresult
    /\ UNCHANGED <<timeout, poll_interval, start_time, sleeps>>
    /\ UNCHANGED <<tvars, evars, xvars>>

\* lines 106 and 111: time.sleep(poll_interval), then back to line 95.
WaitSleep ==
    /\ wpc = "sleep"
    /\ clock' = clock + poll_interval
    /\ sleeps' = sleeps + 1
    /\ wpc' = "test"
    /\ UNCHANGED <<timeout, poll_interval, start_time, last_obs, wresult,
                   polls, not_found_polls>>
    /\ UNCHANGED <<tvars, evars, xvars>>

WaitIdle ==
    /\ wpc = "idle"
    /\ timeout = 0
    /\ poll_interval = 1
    /\ start_time = 0
    /\ clock \in 0 .. MaxLatency
    /\ last_obs = NoObservation
    /\ wresult = NoResult
    /\ polls = 0
    /\ not_found_polls = 0
    /\ sleeps = 0

(***************************************************************************)
(* Environment manager: manager.py, RackspaceSpotManager.create_environment*)
(***************************************************************************)
\* the longest spot_pools argument
MaxSpotPools == 2
\* the longest on_demand_pools argument
MaxOnDemandPools == 1
\* create_environment calls in one behaviour
MaxInvocations == 2

Namespaces == {"n1"}
CloudspaceNames == {"c1", "c2"}

\* A resource name: a caller's string, or the n-th uuid4 drawn by
\* invocation i (text is "" then): no two draws give the same name.
Name(text) == [text |-> text, uuid |-> 0, call |-> 0]
Uuid4Name(i, n) == [text |-> "", uuid |-> n, call |-> i]
\* `not pool.name` of client.py lines 415 and 498
NameMissing(name) == name = Name("")

\* A pool configuration dict: with or without a 'name' key.
PoolConfig(has_name, text) == [has_name |-> has_name, name |-> Name(text)]
SpotConfigs == {PoolConfig(TRUE, ""), PoolConfig(TRUE, "p1")}
OnDemandConfigs == {PoolConfig(FALSE, ""), PoolConfig(TRUE, "q1")}

SeqsUpTo(S, n) == UNION {[1 .. k -> S] : k \in 0 .. n}

EnvInputs ==
    [cloudspace_name : CloudspaceNames, namespace : Namespaces,
     spot_pools : SeqsUpTo(SpotConfigs, MaxSpotPools),
     on_demand_pools : SeqsUpTo(OnDemandConfigs, MaxOnDemandPools)]
NoInput == [cloudspace_name |-> "", namespace |-> "", spot_pools |-> <<>>,
            on_demand_pools |-> <<>>]

\* lines 49-53
EmptyResult == [cloudspace |-> None, spot_pools |-> <<>>,
                on_demand_pools |-> <<>>]

\* status.phase of a cloudspace the API holds, as a get may find it
FoundPhases == {Some("Provisioning"), Some("Ready")}

CloudSpaceRecord(name, namespace, phase) ==
    [name |-> name, namespace |-> namespace, phase |-> phase]

ClientRequest(op, kind) == [op |-> op, kind |-> kind, authenticated |-> TRUE]
LogEntry(op, namespace, cloudspace, name) ==
    [op |-> op, namespace |-> namespace, cloudspace |-> cloudspace,
     name |-> name]

\* The answer the API gives from its state when nothing goes wrong (it
\* refuses to create a cloudspace it already holds).
FaithfulGet(name) ==
    IF name \in server_cs THEN HttpResponse(200) ELSE HttpResponse(404)
FaithfulCreate(name) ==
    IF name \in server_cs THEN HttpResponse(500) ELSE HttpResponse(200)

\* Truthy as it would be if the found cloudspace were never reused.
Truthy_Never(out) == FALSE

\* lines 55-59: the exception handler leaves None, and `if cloudspace:` is
\* true of a CloudSpace record and false of None.
Truthy(out) == out.outcome = "return" /\ out.value = "record"

\* PoolObject as it would be with namespace and cloudspace name exchanged.
PoolObject_Swapped(namespace, cloudspace_name, name) ==
    [namespace |-> cloudspace_name, cloudspace |-> namespace, name |-> name]

\* lines 78-82 and 89-93: the pool object built from a configuration.
PoolObject(namespace, cloudspace_name, name) ==
    [namespace |-> namespace, cloudspace |-> cloudspace_name, name |-> name]

\* lines 76 and 87: a list that is None or empty is skipped.
AfterCloudspace(input) ==
    IF Len(input.spot_pools) > 0 THEN "spot_pools"
    ELSE IF Len(input.on_demand_pools) > 0 THEN "on_demand_pools"
    ELSE "sleep"
AfterSpotPools(input) ==
    IF Len(input.on_demand_pools) > 0 THEN "on_demand_pools" ELSE "sleep"

EnvCall(input) ==
    /\ epc = "idle"
    /\ invocations < MaxInvocations
    /\ invocations' = invocations + 1
    /\ same_name' = (invocations = 0 \/
                      (same_name
                       /\ input.cloudspace_name = einput.cloudspace_name
                       /\ input.namespace = einput.namespace))
    /\ einput' = input
    /\ ecloudspace' = None
    /\ eresult' = EmptyResult
    /\ eindex' = 1
    /\ eget' = NoObservation
    /\ eerror' = NoResult
    /\ elog' = <<>>
    /\ epc' = "get_cloudspace"
    /\ uuid_count' = 0
    /\ preexisting' = IF invocations = 0
                      THEN input.cloudspace_name \in server_cs
                      ELSE preexisting
    /\ UNCHANGED <<server_cs, create_cs_total, faithful, pools_created>>
    /\ UNCHANGED <<tvars, wvars, xvars>>

\* lines 55-62 and, for a cloudspace that was found, line 73.
EnvGetCloudspace(a, phase) ==
    /\ epc = "get_cloudspace"
    /\ a.status = 200 => einput.cloudspace_name \in server_cs
    /\ LET out == ClientCall(GetCloudspace, a)
           found == CloudSpaceRecord(einput.cloudspace_name,
                                     einput.namespace, phase)
       IN /\ eget' = Observation(out, IF Truthy(out) THEN phase ELSE None,
                                  None)
          /\ elog' = Append(elog, LogEntry("get_cloudspace", einput.namespace,
                                 einput.cloudspace_name,
                                 Name(einput.cloudspace_name)))
          /\ IF Truthy(out)
             THEN /\ ecloudspace' = Some(found)
                  /\ eresult' = [eresult EXCEPT !.cloudspace = Some(found)]
                  /\ epc' = AfterCloudspace(einput)
             ELSE /\ ecloudspace' = None
                  /\ epc' = "create_cloudspace"
                  /\ UNCHANGED eresult
    /\ faithful' = (faithful /\ a = FaithfulGet(einput.cloudspace_name))
    /\ UNCHANGED <<einput, eindex, eerror, server_cs, preexisting, uuid_count,
                   invocations, create_cs_total, same_name, pools_created>>
    /\ UNCHANGED <<tvars, wvars, xvars>>

\* lines 63-73: create_cloudspace; its exception is not handled.
EnvCreateCloudspace(a) ==
    /\ epc = "create_cloudspace"
    /\ a.status = 200 => einput.cloudspace_name \notin server_cs
    /\ LET out == ClientCall(ClientRequest("create", "cloudspace"), a)
           created == CloudSpaceRecord(einput.cloudspace_name,
                                       einput.namespace, None)
       IN /\ elog' = Append(elog, LogEntry("create_cloudspace",
                                 einput.namespace, einput.cloudspace_name,
                                 Name(einput.cloudspace_name)))
          /\ IF out.outcome = "raise"
             THEN /\ epc' = "raised"
                  /\ eerror' = out
                  /\ UNCHANGED <<ecloudspace, eresult>>
             ELSE /\ ecloudspace' = Some(created)
                  /\ eresult' = [eresult EXCEPT !.cloudspace = Some(created)]
                  /\ epc' = AfterCloudspace(einput)
                  /\ UNCHANGED eerror
          /\ server_cs' = IF a = HttpResponse(200)
                          THEN server_cs \cup {einput.cloudspace_name}
                          ELSE server_cs
    /\ create_cs_total' = create_cs_total + 1
    /\ faithful' = (faithful /\ a = FaithfulCreate(einput.cloudspace_name))
    /\ UNCHANGED <<einput, eindex, eget, preexisting, uuid_count, invocations,
                   same_name, pools_created>>
    /\ UNCHANGED <<tvars, wvars, xvars>>

\* PoolCreateRaised as it would be if the loops caught the exception and
\* the call returned what it had created so far.
PoolCreateRaised_ReturnsPartial(e) == [epc |-> "sleep", eerror |-> NoResult]

\* lines 76-95 have no try: an exception raised in a turn of a pool loop
\* leaves create_environment with that exception.
PoolCreateRaised(e) == [epc |-> "raised", eerror |-> e]

\* One turn of a pool loop (lines 77-84 for "spot_pools", 88-95 for
\* "on_demand_pools"): the pool object is built, the client's create method
\* names it when it has no name (client.py lines 415-416, 498-499), posts it
\* and parses the API's echo of it.
EnvCreatePool(list, op, kind, next, a) ==
    /\ epc = list
    /\ LET cfg == einput[list][eindex]
           name == IF NameMissing(cfg.name) THEN Uuid4Name(invocations, uuid_count + 1)
                   ELSE cfg.name
           pool == PoolObject(einput.namespace, einput.cloudspace_name, name)
           out == ClientCall(ClientRequest("create", kind), a)
       IN IF ~cfg.has_name
          THEN \* the dataclass has no default for `name`: TypeError
               /\ epc' = PoolCreateRaised(OtherError("TypeError")).epc
               /\ eerror' = PoolCreateRaised(OtherError("TypeError")).eerror
               /\ UNCHANGED <<eresult, eindex, elog, uuid_count>>
          ELSE /\ elog' = Append(elog, LogEntry(op, pool.namespace,
                                      pool.cloudspace, pool.name))
               /\ uuid_count' = IF NameMissing(cfg.name) THEN uuid_count + 1
                                ELSE uuid_count
               /\ IF out.outcome = "raise"
                  THEN /\ epc' = PoolCreateRaised(out).epc
                       /\ eerror' = PoolCreateRaised(out).eerror
                       /\ UNCHANGED <<eresult, eindex>>
                  ELSE /\ eresult' = [eresult EXCEPT
                                         ![list] = Append(@, pool)]
                       /\ epc' = IF eindex < Len(einput[list]) THEN list
                                 ELSE next
                       /\ eindex' = IF eindex < Len(einput[list])
                                    THEN eindex + 1 ELSE 1
                       /\ UNCHANGED eerror
    /\ UNCHANGED <<einput, ecloudspace, eget, server_cs, preexisting,
                   invocations, create_cs_total, faithful, same_name,
                   pools_created>>
    /\ UNCHANGED <<tvars, wvars, xvars>>

EnvCreateSpotPool(a) ==
    EnvCreatePool("spot_pools", "create_spot_node_pool", "spotnodepool",
                  AfterSpotPools(einput), a)

EnvCreateOnDemandPool(a) ==
    EnvCreatePool("on_demand_pools", "create_on_demand_node_pool",
                  "ondemandnodepool", "sleep", a)

\* lines 97-99: the fixed sleep, then the result is returned.
EnvSleep ==
    /\ epc = "sleep"
    /\ epc' = "done"
    /\ UNCHANGED <<einput, ecloudspace, eresult, eindex, eget, eerror, elog,
                   server_cs, preexisting, uuid_count, invocations,
                   create_cs_total, faithful, same_name, pools_created>>
    /\ UNCHANGED <<tvars, wvars, xvars>>

\* The caller has the result or the exception and the call's locals are
\* gone; it may call again (einput keeps the names it was called with).
EnvFinish ==
    /\ epc \in {"done", "raised"}
    /\ epc' = "idle"
    /\ einput' = [NoInput EXCEPT !.cloudspace_name = einput.cloudspace_name,
                                 !.namespace = einput.namespace]
    /\ ecloudspace' = None
    /\ eresult' = EmptyResult
    /\ eindex' = 1
    /\ eget' = NoObservation
    /\ eerror' = NoResult
    /\ elog' = <<>>
    /\ uuid_count' = 0
    /\ pools_created' = (pools_created \/ Len(eresult.spot_pools) > 0
                         \/ Len(eresult.on_demand_pools) > 0)
    /\ UNCHANGED <<server_cs, preexisting, invocations, create_cs_total,
                   faithful, same_name>>
    /\ UNCHANGED <<tvars, wvars, xvars>>

EnvIdle ==
    /\ epc = "idle"
    /\ einput = NoInput
    /\ ecloudspace = None
    /\ eresult = EmptyResult
    /\ eindex = 1
    /\ eget = NoObservation
    /\ eerror = NoResult
    /\ elog = <<>>
    /\ server_cs = {}
    /\ preexisting = FALSE
    /\ uuid_count = 0
    /\ invocations = 0
    /\ create_cs_total = 0
    /\ faithful = TRUE
    /\ same_name = TRUE
    /\ pools_created = FALSE

(***************************************************************************)
(* Cleanup: manager.py, RackspaceSpotManager.cleanup_environment.          *)
(***************************************************************************)
\* the longest resources['spot_pools']
MaxResourcePools == 2
\* the longest list a list call returns
MaxListed == 3

PoolNames == {"p1", "p2", "p3"}
OnDemandNames == {"p1", "q1"}

\* The sequences without repetition of at most n members of S: a namespace
\* listing, by the names of its items (the API holds one resource of a kind
\* under a name).
Listings(S, n) ==
    {q \in SeqsUpTo(S, n) : \A i, j \in 1 .. Len(q) : q[i] = q[j] => i = j}

\* The `resources` argument, by the names of its members: the dict that
\* create_environment returns, or one its caller put together (its
\* 'cloudspace' may then be None).
Resources ==
    [spot_pools : SeqsUpTo({"p1", "p2"}, MaxResourcePools),
     on_demand_pools : SeqsUpTo({"q1"}, MaxResourcePools - 1),
     cloudspace : {None, Some("c1")}]
NoResources == [spot_pools |-> <<>>, on_demand_pools |-> <<>>,
                cloudspace |-> None]
NoListings == [spot_pools |-> <<>>, on_demand_pools |-> <<>>,
               cloudspace |-> <<>>]

\* StageOrder as it would be if the cloudspace were deleted first.
StageOrder_CloudspaceFirst == <<"cloudspace", "spot_pools", "on_demand_pools">>

\* lines 113-131: the three blocks of the try, in the order of the code.
StageOrder == <<"spot_pools", "on_demand_pools", "cloudspace">>

ListOp(stage) ==
    CASE stage = "spot_pools" -> "list_spot_node_pools"
      [] stage = "on_demand_pools" -> "list_on_demand_node_pools"
      [] OTHER -> "list_cloudspaces"
DeleteOp(stage) ==
    CASE stage = "spot_pools" -> "delete_spot_node_pool"
      [] stage = "on_demand_pools" -> "delete_on_demand_node_pool"
      [] OTHER -> "delete_cloudspace"
KindOf(stage) ==
    CASE stage = "spot_pools" -> "spotnodepool"
      [] stage = "on_demand_pools" -> "ondemandnodepool"
      [] OTHER -> "cloudspace"
ListingsOf(stage) ==
    CASE stage = "spot_pools" -> Listings(PoolNames, MaxListed)
      [] stage = "on_demand_pools" -> Listings(OnDemandNames, MaxListed)
      [] OTHER -> Listings(CloudspaceNames, MaxListed)

\* PoolTargets as it would be if a delete call were issued for every member
\* of the resources, listed or not.
PoolTargets_Members(users, listed) == users

\* PoolTargets as it would be if every listed pool were deleted.
PoolTargets_All(users, listed) == listed

\* lines 115-118 and 122-125: for each member of the resources, in order,
\* each listed pool of the same name, in listing order, is deleted under
\* the member's name.
RECURSIVE PoolTargets(_, _)
PoolTargets(users, listed) ==
    IF users = <<>> THEN <<>>
    ELSE SelectSeq(listed, LAMBDA name : name = Head(users))
         \o PoolTargets(Tail(users), listed)

\* lines 129-131: each listed cloudspace with the name of
\* resources["cloudspace"] is deleted.
CloudspaceTargets(user, listed) ==
    SelectSeq(listed, LAMBDA name : Some(name) = user)

\* line 130 reads resources["cloudspace"].name once per listed cloudspace:
\* an AttributeError when resources["cloudspace"] is None.
CloudspaceNameError(user, listed) == user = None /\ Len(listed) > 0

Targets(stage, res, listed) ==
    IF stage = "cloudspace" THEN CloudspaceTargets(res.cloudspace, listed)
    ELSE PoolTargets(res[stage], listed)

CallEntry(op, name, out) ==
    [op |-> op, name |-> name, ok |-> out.outcome = "return"]

\* CleanupExcept as it would be if the handler caught the SDK's error only.
CleanupExcept_OnlyAPIError(e) ==
    IF e.class = "RackspaceSpotAPIError" THEN Returned("False") ELSE e

\* lines 136-138: the handler of every Exception raised inside the try.
CleanupExcept(e) == Returned("False")

\* The names of a listing.
NamesOf(listing) == {listing[i] : i \in 1 .. Len(listing)}

\* What a cleanup leaves in the namespace, by block, when its delete calls
\* take effect and nothing else changes the namespace: the names its list
\* calls returned less those its delete calls were issued for.
LeftBy(listings, log) ==
    [stage \in {"spot_pools", "on_demand_pools", "cloudspace"} |->
        NamesOf(listings[stage])
        \ {log[i].name : i \in {j \in 1 .. Len(log) :
                                    log[j].op = DeleteOp(stage)}}]

\* line 112
CleanupCall(res) ==
    /\ cpc = "idle"
    /\ cres' = res
    /\ cstage' = 1
    /\ cpc' = "list"
    /\ clistings' = NoListings
    /\ cqueue' = <<>>
    /\ clog' = <<>>
    /\ cresult' = NoResult
    /\ cprior' = None
    /\ UNCHANGED <<tvars, evars, wvars, svars, mvars, rvars, yvars>>

\* The caller calls cleanup_environment once more with the resources of a
\* cleanup that returned True.
CleanupAgain ==
    /\ cpc = "idle"
    /\ cprior # None
    /\ cres' = (CHOOSE prior \in cprior : TRUE).res
    /\ cstage' = 1
    /\ cpc' = "list"
    /\ clistings' = NoListings
    /\ cqueue' = <<>>
    /\ clog' = <<>>
    /\ cresult' = NoResult
    /\ UNCHANGED cprior
    /\ UNCHANGED <<tvars, evars, wvars, svars, mvars, rvars, yvars>>

\* Where the try goes after a block's list call or one of its delete calls
\* returned, with `queue` the delete calls the block has left: lines 133-134
\* after the last block.
CleanupAdvance(queue) ==
    /\ cqueue' = queue
    /\ IF Len(queue) > 0
       THEN cpc' = "delete" /\ UNCHANGED <<cstage, cresult>>
       ELSE IF cstage < Len(StageOrder)
       THEN cpc' = "list" /\ cstage' = cstage + 1 /\ UNCHANGED cresult
       ELSE cpc' = "returned" /\ cresult' = Returned("True")
                /\ UNCHANGED cstage

\* CleanupFail as it would be if each call were guarded on its own and the
\* cleanup went on with the next one.
CleanupFail_Continue(e) ==
    CleanupAdvance(IF cqueue = <<>> THEN <<>> ELSE Tail(cqueue))

\* The try is left by an exception.
CleanupFail(e) ==
    /\ cpc' = "returned"
    /\ cresult' = CleanupExcept(e)
    /\ UNCHANGED <<cstage, cqueue>>

\* lines 114, 121, 128: the block's list call, answered with `listing` when
\* it succeeds.
CleanupList(a, listing) ==
    /\ cpc = "list"
    /\ LET stage == StageOrder[cstage]
           out == ClientCall(ClientRequest("list", KindOf(stage)), a)
       IN /\ listing \in ListingsOf(stage)
          /\ cprior' = {prior \in cprior :
                           /\ out.outcome = "return"
                           /\ NamesOf(listing) = prior.left[stage]}
          /\ out.outcome = "raise" => listing = <<>>
          /\ clog' = Append(clog, CallEntry(ListOp(stage), "", out))
          /\ IF out.outcome = "raise"
             THEN CleanupFail(out) /\ UNCHANGED clistings
             ELSE /\ clistings' = [clistings EXCEPT ![stage] = listing]
                  /\ IF stage = "cloudspace"
                        /\ CloudspaceNameError(cres.cloudspace, listing)
                     THEN CleanupFail(OtherError("AttributeError"))
                     ELSE CleanupAdvance(Targets(stage, cres, listing))
    /\ UNCHANGED cres
    /\ UNCHANGED <<tvars, evars, wvars, svars, mvars, rvars, yvars>>

\* lines 118, 125, 131: the next delete call of the block's loops.
CleanupDelete(a) ==
    /\ cpc = "delete"
    /\ LET stage == StageOrder[cstage]
           out == ClientCall(ClientRequest("delete", KindOf(stage)), a)
       IN /\ clog' = Append(clog, CallEntry(DeleteOp(stage), Head(cqueue),
                                            out))
          /\ IF out.outcome = "raise"
             THEN CleanupFail(out)
             ELSE CleanupAdvance(Tail(cqueue))
    /\ UNCHANGED <<cres, clistings, cprior>>
    /\ UNCHANGED <<tvars, evars, wvars, svars, mvars, rvars, yvars>>

\* The caller has the result.
CleanupFinish ==
    /\ cpc = "returned"
    /\ cpc' = "idle"
    /\ cres' = NoResources
    /\ cstage' = 1
    /\ clistings' = NoListings
    /\ cqueue' = <<>>
    /\ clog' = <<>>
    /\ cresult' = NoResult
    /\ cprior' = IF cresult = Returned("True")
                 THEN Some([res |-> cres, left |-> LeftBy(clistings, clog)])
                 ELSE None
    /\ UNCHANGED <<tvars, evars, wvars, svars, mvars, rvars, yvars>>

\* The argument that cleanup_environment gets when it is given the dict
\* that create_environment returned (manager.py lines 49-53, 73, 84, 95),
\* by the names of its members.
ResourcesOf(returned) ==
    [spot_pools |-> [i \in 1 .. Len(returned.spot_pools) |->
                        returned.spot_pools[i].name.text],
     on_demand_pools |-> [i \in 1 .. Len(returned.on_demand_pools) |->
                            returned.on_demand_pools[i].name.text],
     cloudspace |-> {cs.name : cs \in returned.cloudspace}]

\* cleanup_environment is called with the result of the create_environment
\* call that has returned.
CleanupOfEnvironment ==
    /\ epc = "done"
    /\ CleanupCall(ResourcesOf(eresult))

CleanupIdle ==
    /\ cpc = "idle"
    /\ cres = NoResources
    /\ cstage = 1
    /\ clistings = NoListings
    /\ cqueue = <<>>
    /\ clog = <<>>
    /\ cresult = NoResult
    /\ cprior = None

(***************************************************************************)
(* Status: manager.py, RackspaceSpotManager.get_environment_status.        *)
(***************************************************************************)
\* the longest list a list call of the status returns
MaxStatusListed == 2

\* The fields of a listed resource that the status reads; `count` is
\* won_count or reserved_count.
CloudspaceItems == [phase : {None, Some("Provisioning"), Some("Ready")}]
PoolItems == [desired : 1 .. 2, count : {None, Some(1)}]

\* lines 151-153: the list calls, in the order of the code.
StatusOrder == <<"cloudspaces", "spot_pools", "on_demand_pools">>
StatusListOp(section) ==
    CASE section = "cloudspaces" -> "list_cloudspaces"
      [] section = "spot_pools" -> "list_spot_node_pools"
      [] OTHER -> "list_on_demand_node_pools"
StatusKind(section) ==
    CASE section = "cloudspaces" -> "cloudspace"
      [] section = "spot_pools" -> "spotnodepool"
      [] OTHER -> "ondemandnodepool"
StatusListings(section) ==
    IF section = "cloudspaces" THEN SeqsUpTo(CloudspaceItems, MaxStatusListed)
    ELSE SeqsUpTo(PoolItems, MaxStatusListed)
NoStatusLists == [cloudspaces |-> <<>>, spot_pools |-> <<>>,
                  on_demand_pools |-> <<>>]

\* sum(pool.desired for pool in pools), lines 171 and 186
RECURSIVE TotalDesired(_)
TotalDesired(pools) ==
    IF pools = <<>> THEN 0 ELSE Head(pools).desired + TotalDesired(Tail(pools))
\* TotalCount as it would be if every listed pool counted for one.
TotalCount_Entries(pools) == Len(pools)

\* sum(pool.won_count or 0 for pool in pools), lines 172 and 187
RECURSIVE TotalCount(_)
TotalCount(pools) ==
    IF pools = <<>> THEN 0
    ELSE (IF Head(pools).count = None THEN 0
          ELSE CHOOSE n \in Head(pools).count : TRUE)
         + TotalCount(Tail(pools))

\* lines 155-199: the dictionary returned when the three list calls
\* succeeded.
StatusReport(lists) ==
    [cloudspaces |->
        [count |-> Len(lists.cloudspaces),
         ready |-> Len(SelectSeq(lists.cloudspaces,
                                 LAMBDA cs : cs.phase = Some("Ready"))),
         details |-> lists.cloudspaces],
     spot_pools |->
        [count |-> Len(lists.spot_pools),
         total_desired |-> TotalDesired(lists.spot_pools),
         total_won |-> TotalCount(lists.spot_pools),
         details |-> lists.spot_pools],
     on_demand_pools |->
        [count |-> Len(lists.on_demand_pools),
         total_desired |-> TotalDesired(lists.on_demand_pools),
         total_reserved |-> TotalCount(lists.on_demand_pools),
         details |-> lists.on_demand_pools]]

\* StatusExcept as it would be without the handler.
StatusExcept_Reraise(e) == e

\* lines 201-202: the handler of every Exception raised inside the try;
\* the error field holds str(e).
StatusExcept(e) == Returned([error |-> e.value])

\* line 150
StatusCall ==
    /\ spc = "idle"
    /\ spc' = "list"
    /\ sstage' = 1
    /\ slists' = NoStatusLists
    /\ slog' = <<>>
    /\ sresult' = NoResult
    /\ UNCHANGED <<tvars, evars, wvars, cvars, mvars, rvars, yvars>>

\* lines 151-153, and lines 155-199 after the third list call.
StatusList(a, listing) ==
    /\ spc = "list"
    /\ LET section == StatusOrder[sstage]
           out == ClientCall(ClientRequest("list", StatusKind(section)), a)
       IN /\ listing \in StatusListings(section)
          /\ out.outcome = "raise" => listing = <<>>
          /\ slog' = Append(slog, CallEntry(StatusListOp(section), "", out))
          /\ IF out.outcome = "raise"
             THEN /\ spc' = "returned"
                  /\ sresult' = StatusExcept(out)
                  /\ UNCHANGED <<sstage, slists>>
             ELSE /\ slists' = [slists EXCEPT ![section] = listing]
                  /\ IF sstage < Len(StatusOrder)
                     THEN /\ sstage' = sstage + 1
                          /\ UNCHANGED <<spc, sresult>>
                     ELSE /\ spc' = "returned"
                          /\ sresult' = Returned(StatusReport(slists'))
                          /\ UNCHANGED sstage
    /\ UNCHANGED <<tvars, evars, wvars, cvars, mvars, rvars, yvars>>

\* The caller has the result.
StatusFinish ==
    /\ spc = "returned"
    /\ spc' = "idle"
    /\ sstage' = 1
    /\ slists' = NoStatusLists
    /\ slog' = <<>>
    /\ sresult' = NoResult
    /\ UNCHANGED <<tvars, evars, wvars, cvars, mvars, rvars, yvars>>

StatusIdle ==
    /\ spc = "idle"
    /\ sstage = 1
    /\ slists = NoStatusLists
    /\ slog = <<>>
    /\ sresult = NoResult

(***************************************************************************)
(* The message of the API error: client.py, _make_request lines 120-133.   *)
(***************************************************************************)
\* The statuses for which response.ok is false.
FailureStatuses == {s \in Statuses : ~ResponseOk(s)}

\* The body of a response, by what response.json() makes of it: "invalid"
\* is not JSON, "object" a dict, "array" a list, "string" a str, "scalar" a
\* number, a boolean or null.  has_message: the dict has the key 'message',
\* the list has the element 'message', the str contains 'message'.
\* message is the value under the key; text is response.text.
Bodies ==
    {b \in [form : {"invalid", "object", "array", "string", "scalar"},
            has_message : BOOLEAN, message : {"", "m1", "m2"},
            text : {"t1", "t2"}] :
        /\ b.form \in {"invalid", "scalar"} => ~b.has_message
        /\ (b.message # "") = (b.form = "object" /\ b.has_message)}
NoBody == [form |-> "invalid", has_message |-> FALSE, message |-> "",
           text |-> ""]

\* A message: the status it names and what follows "status <n>", if
\* anything: the value of the message field or the raw body.
Message(status, part, detail) ==
    [status |-> status, part |-> part, detail |-> detail]
NoMessage == Message(0, "none", "")

\* lines 121-127.  response.json() raises on a body that is not JSON;
\* `'message' in error_detail` raises a TypeError on a scalar; the
\* subscript error_detail['message'] raises a TypeError on a list or a
\* str; the bare except appends response.text in each of these cases, and
\* nothing is appended when the test is simply false.
ErrorMessage(status, body) ==
    CASE body.form \in {"invalid", "scalar"} ->
            Message(status, "text", body.text)
      [] body.form = "object" /\ body.has_message ->
            Message(status, "message", body.message)
      [] body.form \in {"array", "string"} /\ body.has_message ->
            Message(status, "text", body.text)
      [] OTHER -> Message(status, "none", "")

\* line 120: a response that is not ok has arrived.
MessageRespond(status, body) ==
    /\ mpc = "idle"
    /\ mpc' = "response"
    /\ mstatus' = status
    /\ mbody' = body
    /\ mmessage' = NoMessage
    /\ UNCHANGED <<tvars, evars, wvars, cvars, svars, rvars, yvars>>

\* lines 121-133: the error is raised with its message.
MessageRaise ==
    /\ mpc = "response"
    /\ mpc' = "raised"
    /\ mmessage' = ErrorMessage(mstatus, mbody)
    /\ UNCHANGED <<mstatus, mbody>>
    /\ UNCHANGED <<tvars, evars, wvars, cvars, svars, rvars, yvars>>

\* The caller has the error.
MessageFinish ==
    /\ mpc = "raised"
    /\ mpc' = "idle"
    /\ mstatus' = 0
    /\ mbody' = NoBody
    /\ mmessage' = NoMessage
    /\ UNCHANGED <<tvars, evars, wvars, cvars, svars, rvars, yvars>>

MessageIdle ==
    /\ mpc = "idle"
    /\ mstatus = 0
    /\ mbody = NoBody
    /\ mmessage = NoMessage

(***************************************************************************)
(* Create payloads and their parsing: client.py, create_cloudspace,        *)
(* create_spot_node_pool, create_on_demand_node_pool and the _parse_*      *)
(* methods.                                                                *)
(***************************************************************************)
\* The spec fields of the records (classes.py); an Optional field is {} for
\* None and {v} for v.  The status fields are None and left out.
CloudSpaceRecords ==
    [kind : {"CloudSpace"}, name : {"c1"}, namespace : {"n1"},
     region : {"r1", "r2"}, kubernetes_version : {"1.31.1"},
     webhook : {None, Some(""), Some("w1")}, cni : {"calico", "cilium"},
     ha_control_plane : BOOLEAN, cloud : {"default"}]
SpotNodePoolRecords ==
    [kind : {"SpotNodePool"}, name : {"p1"}, namespace : {"n1"},
     cloudspace : {"c1"}, server_class : {"s1"}, desired : 0 .. 2,
     bid_price : {"0.08"}, autoscaling_enabled : BOOLEAN,
     min_nodes : {None, Some(1)}, max_nodes : {None, Some(3)}]
OnDemandNodePoolRecords ==
    [kind : {"OnDemandNodePool"}, name : {"q1"}, namespace : {"n1"},
     cloudspace : {"c1"}, server_class : {"s1", "s2"}, desired : 0 .. 2]
Records ==
    CloudSpaceRecords \cup SpotNodePoolRecords \cup OnDemandNodePoolRecords
NoRecord == [kind |-> "none"]

\* `if cloudspace.webhook:` of line 346: None and '' are false.
WebhookGiven(webhook) == webhook # None /\ webhook # Some("")

\* create_cloudspace lines 330-347: the payload; a key that is left out of
\* the payload is {} here.
CloudSpaceToWire(r) ==
    [kind |-> "CloudSpace",
     metadata |-> [name |-> r.name, namespace |-> r.namespace],
     spec |-> [region |-> r.region,
               kubernetesVersion |-> r.kubernetes_version,
               cni |-> r.cni,
               HAControlPlane |-> r.ha_control_plane,
               cloud |-> r.cloud,
               webhook |-> IF WebhookGiven(r.webhook) THEN r.webhook
                           ELSE None]]

\* _parse_cloudspace lines 363-381: spec.get('webhook') is None for a key
\* that is not there.
ParseCloudSpace(w) ==
    [kind |-> "CloudSpace", name |-> w.metadata.name,
     namespace |-> w.metadata.namespace, region |-> w.spec.region,
     kubernetes_version |-> w.spec.kubernetesVersion,
     webhook |-> w.spec.webhook, cni |-> w.spec.cni,
     ha_control_plane |-> w.spec.HAControlPlane, cloud |-> w.spec.cloud]

\* SpotNodePoolToWire as it would be if minNodes and maxNodes were sent
\* whenever they are set.
SpotNodePoolToWire_AlwaysBounds(r) ==
    [kind |-> "SpotNodePool",
     metadata |-> [name |-> r.name, namespace |-> r.namespace],
     spec |-> [cloudSpace |-> r.cloudspace, serverClass |-> r.server_class,
               desired |-> r.desired, bidPrice |-> r.bid_price,
               autoscaling |-> [enabled |-> r.autoscaling_enabled,
                                minNodes |-> r.min_nodes,
                                maxNodes |-> r.max_nodes]]]

\* create_spot_node_pool lines 418-440, for a pool that has a name.
SpotNodePoolToWire(r) ==
    [kind |-> "SpotNodePool",
     metadata |-> [name |-> r.name, namespace |-> r.namespace],
     spec |-> [cloudSpace |-> r.cloudspace, serverClass |-> r.server_class,
               desired |-> r.desired, bidPrice |-> r.bid_price,
               autoscaling |->
                  [enabled |-> r.autoscaling_enabled,
                   minNodes |-> IF r.autoscaling_enabled THEN r.min_nodes
                                ELSE None,
                   maxNodes |-> IF r.autoscaling_enabled THEN r.max_nodes
                                ELSE None]]]

\* _parse_spot_node_pool lines 456-474
ParseSpotNodePool(w) ==
    [kind |-> "SpotNodePool", name |-> w.metadata.name,
     namespace |-> w.metadata.namespace, cloudspace |-> w.spec.cloudSpace,
     server_class |-> w.spec.serverClass, desired |-> w.spec.desired,
     bid_price |-> w.spec.bidPrice,
     autoscaling_enabled |-> w.spec.autoscaling.enabled,
     min_nodes |-> w.spec.autoscaling.minNodes,
     max_nodes |-> w.spec.autoscaling.maxNodes]

\* create_on_demand_node_pool lines 501-513, for a pool that has a name.
OnDemandNodePoolToWire(r) ==
    [kind |-> "OnDemandNodePool",
     metadata |-> [name |-> r.name, namespace |-> r.namespace],
     spec |-> [cloudSpace |-> r.cloudspace, serverClass |-> r.server_class,
               desired |-> r.desired]]

\* _parse_on_demand_node_pool lines 529-542
ParseOnDemandNodePool(w) ==
    [kind |-> "OnDemandNodePool", name |-> w.metadata.name,
     namespace |-> w.metadata.namespace, cloudspace |-> w.spec.cloudSpace,
     server_class |-> w.spec.serverClass, desired |-> w.spec.desired]

ToWire(r) ==
    CASE r.kind = "CloudSpace" -> CloudSpaceToWire(r)
      [] r.kind = "SpotNodePool" -> SpotNodePoolToWire(r)
      [] OTHER -> OnDemandNodePoolToWire(r)
ParseWire(w) ==
    CASE w.kind = "CloudSpace" -> ParseCloudSpace(w)
      [] w.kind = "SpotNodePool" -> ParseSpotNodePool(w)
      [] OTHER -> ParseOnDemandNodePool(w)

\* A create method is called with a record.
RoundTripCall(r) ==
    /\ rpc = "idle"
    /\ rpc' = "record"
    /\ rrecord' = r
    /\ rwire' = NoRecord
    /\ rparsed' = NoRecord
    /\ UNCHANGED <<tvars, evars, wvars, cvars, svars, mvars, yvars>>

\* The payload is built.
RoundTripBuild ==
    /\ rpc = "record"
    /\ rpc' = "wire"
    /\ rwire' = ToWire(rrecord)
    /\ UNCHANGED <<rrecord, rparsed>>
    /\ UNCHANGED <<tvars, evars, wvars, cvars, svars, mvars, yvars>>

\* The payload, given back by the API as it was sent, is parsed.
RoundTripParse ==
    /\ rpc = "wire"
    /\ rpc' = "parsed"
    /\ rparsed' = ParseWire(rwire)
    /\ UNCHANGED <<rrecord, rwire>>
    /\ UNCHANGED <<tvars, evars, wvars, cvars, svars, mvars, yvars>>

\* The caller has the parsed record.
RoundTripFinish ==
    /\ rpc = "parsed"
    /\ rpc' = "idle"
    /\ rrecord' = NoRecord
    /\ rwire' = NoRecord
    /\ rparsed' = NoRecord
    /\ UNCHANGED <<tvars, evars, wvars, cvars, svars, mvars, yvars>>

RoundTripIdle ==
    /\ rpc = "idle"
    /\ rrecord = NoRecord
    /\ rwire = NoRecord
    /\ rparsed = NoRecord

(***************************************************************************)
(* Parsing: client.py, _parse_cloudspace, _parse_spot_node_pool and        *)
(* _parse_on_demand_node_pool applied to a document of the API. A document *)
(* is taken by the keys it has ("spec.region" is the key region of the     *)
(* section spec; a section that is absent has none of its keys); a field   *)
(* of the parsed record is <<"wire", key>> when it was read from the       *)
(* document and <<"default", value>> when the code filled it in.           *)
(***************************************************************************)
\* lines 369-372: the keys read by subscript, by the field they fill.
CloudSpaceRequired ==
    [name |-> "metadata.name", namespace |-> "metadata.namespace",
     region |-> "spec.region",
     kubernetes_version |-> "spec.kubernetesVersion"]
\* lines 365-366, 373-389: the keys read with .get(), and what it gives
\* for a key that is absent.
CloudSpaceOptional ==
    [webhook |-> <<"spec.webhook", "None">>,
     cni |-> <<"spec.cni", "calico">>,
     ha_control_plane |-> <<"spec.HAControlPlane", "False">>,
     cloud |-> <<"spec.cloud", "default">>,
     api_server_endpoint |-> <<"status.APIServerEndpoint", "None">>,
     phase |-> <<"status.phase", "None">>,
     health |-> <<"status.health", "None">>,
     current_kubernetes_version |->
        <<"status.currentKubernetesVersion", "None">>,
     first_ready_timestamp |-> <<"status.firstReadyTimestamp", "None">>]

\* lines 463-468
SpotNodePoolRequired ==
    [name |-> "metadata.name", namespace |-> "metadata.namespace",
     cloudspace |-> "spec.cloudSpace", server_class |-> "spec.serverClass",
     desired |-> "spec.desired", bid_price |-> "spec.bidPrice"]
\* lines 458-460, 469-473
SpotNodePoolOptional ==
    [autoscaling_enabled |-> <<"spec.autoscaling.enabled", "False">>,
     min_nodes |-> <<"spec.autoscaling.minNodes", "None">>,
     max_nodes |-> <<"spec.autoscaling.maxNodes", "None">>,
     bid_status |-> <<"status.bidStatus", "None">>,
     won_count |-> <<"status.wonCount", "None">>]

\* lines 535-539
OnDemandNodePoolRequired ==
    [name |-> "metadata.name", namespace |-> "metadata.namespace",
     cloudspace |-> "spec.cloudSpace", server_class |-> "spec.serverClass",
     desired |-> "spec.desired"]
\* lines 531-532, 540-541
OnDemandNodePoolOptional ==
    [reserved_count |-> <<"status.reservedCount", "None">>,
     reserved_status |-> <<"status.reservedStatus", "None">>]

RequiredOf(kind) ==
    CASE kind = "CloudSpace" -> CloudSpaceRequired
      [] kind = "SpotNodePool" -> SpotNodePoolRequired
      [] OTHER -> OnDemandNodePoolRequired
OptionalOf(kind) ==
    CASE kind = "CloudSpace" -> CloudSpaceOptional
      [] kind = "SpotNodePool" -> SpotNodePoolOptional
      [] OTHER -> OnDemandNodePoolOptional

\* The keys a document of the kind can have: those the parse function
\* reads, and for an on-demand pool also spec.bidPrice, which it does not
\* read.
KeysOf(kind) ==
    {RequiredOf(kind)[f] : f \in DOMAIN RequiredOf(kind)}
    \cup {OptionalOf(kind)[f][1] : f \in DOMAIN OptionalOf(kind)}
    \cup (IF kind = "OnDemandNodePool" THEN {"spec.bidPrice"} ELSE {})

DocumentKinds == {"CloudSpace", "SpotNodePool", "OnDemandNodePool"}
Documents ==
    UNION {[kind : {k}, keys : SUBSET KeysOf(k)] : k \in DocumentKinds}
NoDocument == [kind |-> "none", keys |-> {}]

\* MapFields as it would be if every key were read with .get().
MapFields_Lenient(required, optional, keys) ==
    [outcome |-> "return", class |-> "none", status_code |-> None,
     value |-> [f \in DOMAIN required \cup DOMAIN optional |->
                   IF f \in DOMAIN required
                   THEN IF required[f] \in keys
                        THEN <<"wire", required[f]>>
                        ELSE <<"default", "None">>
                   ELSE IF optional[f][1] \in keys
                        THEN <<"wire", optional[f][1]>>
                        ELSE <<"default", optional[f][2]>>]]

\* The body of a parse function: a subscript of a key that is absent
\* raises KeyError (the functions have no handler for it), .get() gives
\* the default.
MapFields(required, optional, keys) ==
    IF \E f \in DOMAIN required : required[f] \notin keys
    THEN OtherError("KeyError")
    ELSE [outcome |-> "return", class |-> "none", status_code |-> None,
          value |-> [f \in DOMAIN required \cup DOMAIN optional |->
                        IF f \in DOMAIN required
                        THEN <<"wire", required[f]>>
                        ELSE IF optional[f][1] \in keys
                             THEN <<"wire", optional[f][1]>>
                             ELSE <<"default", optional[f][2]>>]]

MapDocument(doc) ==
    MapFields(RequiredOf(doc.kind), OptionalOf(doc.kind), doc.keys)

\* A parse function is called with a document.
MapCall(doc) ==
    /\ ppc = "idle"
    /\ ppc' = "document"
    /\ pdoc' = doc
    /\ UNCHANGED pout
    /\ UNCHANGED <<tvars, evars, wvars, cvars, svars, mvars, rvars, kvars>>

\* It returns the record or raises.
MapParse ==
    /\ ppc = "document"
    /\ ppc' = "mapped"
    /\ pout' = MapDocument(pdoc)
    /\ UNCHANGED pdoc
    /\ UNCHANGED <<tvars, evars, wvars, cvars, svars, mvars, rvars, kvars>>

\* The caller has the record or the exception.
MapFinish ==
    /\ ppc = "mapped"
    /\ ppc' = "idle"
    /\ pdoc' = NoDocument
    /\ pout' = NoResult
    /\ UNCHANGED <<tvars, evars, wvars, cvars, svars, mvars, rvars, kvars>>

MapIdle ==
    /\ ppc = "idle"
    /\ pdoc = NoDocument
    /\ pout = NoResult

(***************************************************************************)
(* Two callers: client.py, _make_request and _authenticate run by two      *)
(* threads on one client object. The client and its session are shared,    *)
(* the code takes no lock, and each statement that touches the session is  *)
(* a step of its own.                                                      *)
(***************************************************************************)
Callers == {1, 2}

\* line 101: session.request; the session's headers are merged into the
\* request when it is sent.
ConcurrentCall(c) ==
    /\ kpc[c] = "idle"
    /\ kpc' = [kpc EXCEPT ![c] = "send"]
    /\ UNCHANGED <<kheader, kissued, kwire>>
    /\ UNCHANGED <<tvars, evars, wvars, cvars, svars, mvars, rvars, pvars>>

\* lines 101-110: the first send and the test of its answer.
ConcurrentSend(c, a) ==
    /\ kpc[c] = "send"
    /\ kwire' = [kwire EXCEPT ![c] = Append(@, kheader)]
    /\ kpc' = [kpc EXCEPT ![c] = IF ~a.net_error /\ NeedsReauth(a.status, TRUE)
                                 THEN "authenticate" ELSE "done"]
    /\ UNCHANGED <<kheader, kissued>>
    /\ UNCHANGED <<tvars, evars, wvars, cvars, svars, mvars, rvars, pvars>>

\* lines 111 and 62-67: _authenticate posts the refresh token.
ConcurrentPost(c) ==
    /\ kpc[c] = "authenticate"
    /\ kpc' = [kpc EXCEPT ![c] = "exchange"]
    /\ UNCHANGED <<kheader, kissued, kwire>>
    /\ UNCHANGED <<tvars, evars, wvars, cvars, svars, mvars, rvars, pvars>>

\* lines 68-82: the answer of the token endpoint; a new token goes into the
\* session's headers (lines 77-79), a failure raises.
ConcurrentToken(c, o) ==
    /\ kpc[c] = "exchange"
    /\ IF o = "id_token"
       THEN /\ kissued < MaxTokens
            /\ kissued' = kissued + 1
            /\ kheader' = kissued + 1
            /\ kpc' = [kpc EXCEPT ![c] = "replay"]
       ELSE /\ kpc' = [kpc EXCEPT ![c] = "done"]
            /\ UNCHANGED <<kheader, kissued>>
    /\ UNCHANGED kwire
    /\ UNCHANGED <<tvars, evars, wvars, cvars, svars, mvars, rvars, pvars>>

\* lines 112-118: the replay, sent with the headers the session has then.
ConcurrentReplay(c) ==
    /\ kpc[c] = "replay"
    /\ kwire' = [kwire EXCEPT ![c] = Append(@, kheader)]
    /\ kpc' = [kpc EXCEPT ![c] = "done"]
    /\ UNCHANGED <<kheader, kissued>>
    /\ UNCHANGED <<tvars, evars, wvars, cvars, svars, mvars, rvars, pvars>>

\* The caller has its result or its exception.
ConcurrentFinish(c) ==
    /\ kpc[c] = "done"
    /\ kpc' = [kpc EXCEPT ![c] = "idle"]
    /\ kwire' = [kwire EXCEPT ![c] = <<>>]
    /\ UNCHANGED <<kheader, kissued>>
    /\ UNCHANGED <<tvars, evars, wvars, cvars, svars, mvars, rvars, pvars>>

\* After __init__: the client holds the token of its first authentication.
ConcurrentIdle ==
    /\ kpc = [c \in Callers |-> "idle"]
    /\ kheader = 1
    /\ kissued = 1
    /\ kwire = [c \in Callers |-> <<>>]

\* The parts added to the first three, at rest.
ExtraIdle ==
    /\ CleanupIdle /\ StatusIdle /\ MessageIdle /\ RoundTripIdle
    /\ MapIdle /\ ConcurrentIdle

(***************************************************************************)
(* The specifications.                                                     *)
(***************************************************************************)
\* The transport: client calls, one after the other.
Init == TransportInit /\ EnvIdle /\ WaitIdle /\ clock = 0 /\ ExtraIdle
Next ==
    \/ \E r \in Requests : Call(r)
    \/ \E a \in Answers : Send(a)
    \/ \E o \in AuthOutcomes : Authenticate(o)
    \/ \E a \in Answers : Replay(a)
    \/ Check
    \/ \E a \in Answers : GetPriceHistory(a)
    \/ Finish
Spec == Init /\ [][Next]_vars

\* The manager: create_environment calls against an API that holds any set
\* of cloudspaces at the start.
EnvInit ==
    /\ TransportInit
    /\ WaitIdle /\ clock = 0
    /\ ExtraIdle
    /\ epc = "idle"
    /\ einput = NoInput
    /\ ecloudspace = None
    /\ eresult = EmptyResult
    /\ eindex = 1
    /\ eget = NoObservation
    /\ eerror = NoResult
    /\ elog = <<>>
    /\ server_cs \in SUBSET CloudspaceNames
    /\ preexisting = FALSE
    /\ uuid_count = 0
    /\ invocations = 0
    /\ create_cs_total = 0
    /\ faithful = TRUE
    /\ same_name = TRUE
    /\ pools_created = FALSE
EnvNext ==
    \/ \E input \in EnvInputs : EnvCall(input)
    \/ \E a \in FinalAnswers, phase \in FoundPhases :
          EnvGetCloudspace(a, phase)
    \/ \E a \in FinalAnswers : EnvCreateCloudspace(a)
    \/ \E a \in FinalAnswers : EnvCreateSpotPool(a)
    \/ \E a \in FinalAnswers : EnvCreateOnDemandPool(a)
    \/ EnvSleep
    \/ EnvFinish
EnvSpec == EnvInit /\ [][EnvNext]_vars

\* The readiness wait: one call, started at any time.
WaitInit == TransportInit /\ EnvIdle /\ WaitIdle /\ ExtraIdle
WaitNext ==
    \/ \E t \in Timeouts, p \in PollIntervals : WaitCall(t, p)
    \/ WaitTest
    \/ \E obs \in Observations, d \in 0 .. MaxLatency : WaitPoll(obs, d)
    \/ WaitSleep
WaitSpec == WaitInit /\ [][WaitNext]_vars
WaitFairSpec == WaitSpec /\ WF_vars(WaitNext)

\* The cleanup: cleanup_environment calls, one after the other.
CleanupInit == TransportInit /\ EnvIdle /\ WaitIdle /\ clock = 0 /\ ExtraIdle
CleanupNext ==
    \/ \E res \in Resources : CleanupCall(res)
    \/ \E a \in FinalAnswers, listing \in Listings(PoolNames \cup OnDemandNames
                                                   \cup CloudspaceNames,
                                                   MaxListed) :
          CleanupList(a, listing)
    \/ \E a \in FinalAnswers : CleanupDelete(a)
    \/ CleanupFinish
CleanupSpec == CleanupInit /\ [][CleanupNext]_vars

\* The life of an environment: one create_environment call with named
\* pools, then cleanup_environment calls with what it returned.
LifecycleInputs ==
    [cloudspace_name : {"c1"}, namespace : Namespaces,
     spot_pools : SeqsUpTo({PoolConfig(TRUE, "p1")}, MaxOnDemandPools),
     on_demand_pools : SeqsUpTo({PoolConfig(TRUE, "q1")}, MaxOnDemandPools)]
LifecycleInit == EnvInit
LifecycleNext ==
    \/ \E input \in LifecycleInputs : EnvCall(input)
    \/ \E a \in FinalAnswers, phase \in FoundPhases :
          EnvGetCloudspace(a, phase)
    \/ \E a \in FinalAnswers : EnvCreateCloudspace(a)
    \/ \E a \in FinalAnswers : EnvCreateSpotPool(a)
    \/ \E a \in FinalAnswers : EnvCreateOnDemandPool(a)
    \/ EnvSleep
    \/ CleanupOfEnvironment
    \/ \E a \in FinalAnswers, listing \in Listings(PoolNames \cup OnDemandNames
                                                   \cup CloudspaceNames,
                                                   MaxListed) :
          CleanupList(a, listing)
    \/ \E a \in FinalAnswers : CleanupDelete(a)
    \/ CleanupFinish
LifecycleSpec == LifecycleInit /\ [][LifecycleNext]_vars

\* The cleanup called again: as CleanupSpec, and a cleanup that returned
\* True can be followed by one with the same resources.
RerunInit == CleanupInit
RerunNext ==
    \/ \E res \in Resources : CleanupCall(res)
    \/ CleanupAgain
    \/ \E a \in FinalAnswers, listing \in Listings(PoolNames \cup OnDemandNames
                                                   \cup CloudspaceNames,
                                                   MaxListed) :
          CleanupList(a, listing)
    \/ \E a \in FinalAnswers : CleanupDelete(a)
    \/ CleanupFinish
RerunSpec == RerunInit /\ [][RerunNext]_vars

\* The status: get_environment_status calls, one after the other.
StatusInit == TransportInit /\ EnvIdle /\ WaitIdle /\ clock = 0 /\ ExtraIdle
StatusNext ==
    \/ StatusCall
    \/ \E a \in FinalAnswers,
          listing \in SeqsUpTo(CloudspaceItems \cup PoolItems,
                               MaxStatusListed) :
          StatusList(a, listing)
    \/ StatusFinish
StatusSpec == StatusInit /\ [][StatusNext]_vars

\* The error message: responses that are not ok, one after the other.
MessageInit == TransportInit /\ EnvIdle /\ WaitIdle /\ clock = 0 /\ ExtraIdle
MessageNext ==
    \/ \E status \in FailureStatuses, body \in Bodies :
          MessageRespond(status, body)
    \/ MessageRaise
    \/ MessageFinish
MessageSpec == MessageInit /\ [][MessageNext]_vars

\* The create payloads: records built into payloads and parsed back.
RoundTripInit == TransportInit /\ EnvIdle /\ WaitIdle /\ clock = 0 /\ ExtraIdle
RoundTripNext ==
    \/ \E r \in Records : RoundTripCall(r)
    \/ RoundTripBuild
    \/ RoundTripParse
    \/ RoundTripFinish
RoundTripSpec == RoundTripInit /\ [][RoundTripNext]_vars

\* The parsing: parse calls, one after the other.
MapInit == TransportInit /\ EnvIdle /\ WaitIdle /\ clock = 0 /\ ExtraIdle
MapNext ==
    \/ \E doc \in Documents : MapCall(doc)
    \/ MapParse
    \/ MapFinish
MapSpec == MapInit /\ [][MapNext]_vars

\* The two callers: authenticated requests of two threads, interleaved.
ConcurrentInit ==
    TransportInit /\ EnvIdle /\ WaitIdle /\ clock = 0 /\ ExtraIdle
ConcurrentNext ==
    \/ \E c \in Callers : ConcurrentCall(c)
    \/ \E c \in Callers, a \in Answers : ConcurrentSend(c, a)
    \/ \E c \in Callers : ConcurrentPost(c)
    \/ \E c \in Callers, o \in AuthOutcomes : ConcurrentToken(c, o)
    \/ \E c \in Callers : ConcurrentReplay(c)
    \/ \E c \in Callers : ConcurrentFinish(c)
ConcurrentSpec == ConcurrentInit /\ [][ConcurrentNext]_vars

(***************************************************************************)
(* Properties of the transport, checked under Spec.                        *)
(***************************************************************************)
\* C1: an authenticated request whose first response is 401 makes exactly
\* one token exchange and replays the request at most once; when the replay
\* is answered 401 again the call raises the API error with status code 401,
\* with no second exchange and no third send.
C1_SingleReauthentication ==
    req.authenticated /\ first = Some(401) =>
        /\ auths <= 1
        /\ sends <= 2
        /\ tpc \in {"authenticate", "replay", "check", "done", "idle"}
        /\ tpc # "authenticate" => auths = 1
        /\ tpc \in {"done", "idle"} /\ second = Some(401) =>
              /\ result.outcome = "raise"
              /\ result.class = "RackspaceSpotAPIError"
              /\ result.status_code = Some(401)
              /\ sends = 2
              /\ auths = 1

\* The replay was answered 401 too and the call has raised.
C1_Witness ==
    /\ tpc = "done"
    /\ req.authenticated
    /\ first = Some(401)
    /\ second = Some(401)
    /\ result.outcome = "raise"
    /\ result.status_code = Some(401)
    /\ sends = 2
    /\ auths = 1

\* C2: a request of _make_request whose first response is a failure status
\* other than 401, or whose first send fails at network level, is sent
\* exactly once, makes
\* no token exchange and raises the API error at once; after a network
\* failure the error has no status code.
C2_OtherFailuresSurfaceAtOnce ==
    /\ \A s \in {403, 404, 500} :
          first = Some(s) =>
              /\ sends = 1
              /\ auths = 0
              /\ tpc \in {"check", "done", "idle"}
              /\ tpc # "check" =>
                    /\ result.outcome = "raise"
                    /\ result.class = "RackspaceSpotAPIError"
                    /\ result.status_code = Some(s)
    /\ tpc \in {"done", "idle"} /\ req # NoRequest /\ first = None
          /\ req # PriceHistoryRequest =>
          /\ sends = 1
          /\ auths = 0
          /\ result.outcome = "raise"
          /\ result.class = "RackspaceSpotAPIError"
          /\ result.status_code = None

\* The first send failed at network level and the call has raised.
C2_Witness ==
    /\ tpc = "done"
    /\ req.authenticated
    /\ first = None
    /\ sends = 1
    /\ auths = 0
    /\ result.outcome = "raise"
    /\ result.status_code = None

\* The get call in progress ended on a 404 response.
GetAnswered404 ==
    tpc = "done" /\ req.op = "get" /\ response = Some(404)

\* C3 as stated: get on a name the API does not hold (HTTP 404) raises a
\* NotFoundError, a kind of its own, and never the generic API error.
C3_RaisesNotFoundErrorKind ==
    GetAnswered404 =>
        /\ result.outcome = "raise"
        /\ result.class = "NotFoundError"

\* C3, amended: get on a name the API does not hold (HTTP 404) raises, for
\* every resource kind, the one error class of the SDK with status code 404;
\* it returns neither a record nor None.
C3_RaisesAPIErrorWith404 ==
    GetAnswered404 =>
        /\ result.outcome = "raise"
        /\ result.class = "RackspaceSpotAPIError"
        /\ result.status_code = Some(404)

\* get_cloudspace was answered 404 and has raised.
C3_Witness ==
    /\ GetAnswered404
    /\ req.kind = "cloudspace"
    /\ result.outcome = "raise"

\* The call in progress ended inside _authenticate: the token exchange
\* that followed its 401 gave no id_token.
AuthenticateFailed ==
    tpc \in {"done", "idle"} /\ auths = 1 /\ exchange # "id_token"

\* C15 as stated: a token exchange that is answered a failure status, fails
\* at network level or gives a document without id_token raises an
\* AuthenticationError, a kind other than the API error.
C15_RaisesAuthenticationErrorKind ==
    AuthenticateFailed =>
        /\ result.outcome = "raise"
        /\ result.class = "AuthenticationError"

\* C15, amended: a token exchange that is answered a failure status, fails
\* at network level or gives a document without id_token raises the one
\* error class of the SDK, without status code, and the request is not
\* replayed; the id_token of a successful exchange is from then on the
\* bearer token of the session and of every authenticated request it sends.
C15_RaisesAPIErrorWithoutStatus ==
    /\ AuthenticateFailed =>
          /\ result.outcome = "raise"
          /\ result.class = "RackspaceSpotAPIError"
          /\ result.status_code = None
          /\ sends = 1
    /\ header_token = Some(tokens_issued)
    /\ (req.authenticated /\ wire # <<>> /\ tpc # "replay") =>
          wire[Len(wire)] = BearerAuth(tokens_issued)
    /\ (auths = 1 /\ exchange = "id_token" /\ Len(wire) = 2) =>
          /\ wire[1] = BearerAuth(tokens_issued - 1)
          /\ wire[2] = BearerAuth(tokens_issued)
          /\ access_token = Some(tokens_issued)

\* A call after a successful re-authentication has sent its request with
\* the second id_token.
C15_Witness ==
    /\ tokens_issued = 2
    /\ tpc = "check"
    /\ req.authenticated
    /\ auths = 0
    /\ wire = <<BearerAuth(2)>>

\* The call of _make_request in progress ended on a response: its last
\* request was answered and no token exchange failed.
EndedOnResponse ==
    /\ tpc = "done"
    /\ req # PriceHistoryRequest
    /\ ~AuthenticateFailed
    /\ \/ sends = 1 /\ first # None
       \/ sends = 2 /\ second # None

\* C16 as stated: every response with a status outside 200-299 that is
\* left after the one replay makes the request raise the API error with
\* that status; no response with such a status, a 3xx included, is given
\* to the caller as a success.
C16_NonSuccessAlwaysRaises ==
    \A status \in Statuses \ (200 .. 299) :
        (EndedOnResponse /\ response = Some(status)) =>
            /\ result.outcome = "raise"
            /\ result.class = "RackspaceSpotAPIError"
            /\ result.status_code = Some(status)

\* C18: a request made with authenticated=False and the price-history
\* fetch never carry the bearer token, and a 401 answered to either leads
\* to no token exchange and no replay: it is raised as the API error with
\* status 401.
C18_UnauthenticatedCarriesNoToken ==
    ~req.authenticated =>
        /\ \A i \in 1 .. Len(wire) : wire[i].scheme # "Bearer"
        /\ auths = 0
        /\ sends <= 1
        /\ tpc \notin {"authenticate", "replay"}
        /\ (tpc \in {"done", "idle"} /\ first = Some(401)) =>
              /\ result.outcome = "raise"
              /\ result.class = "RackspaceSpotAPIError"
              /\ result.status_code = Some(401)

\* An unauthenticated request of _make_request was answered 401 while the
\* session held a bearer token, and has raised.
C18_Witness ==
    /\ tpc = "done"
    /\ req.op = "request"
    /\ ~req.authenticated
    /\ header_token # None
    /\ first = Some(401)
    /\ wire = <<EmptyAuth>>
    /\ result.status_code = Some(401)

(***************************************************************************)
(* Property of the error message, checked under MessageSpec.               *)
(***************************************************************************)
\* C17 as stated: the message of the API error raised for a response that
\* is not a success holds the value of the `message` field of the JSON
\* body when the body has one, and the raw body in every other case (a
\* body that is not JSON, or JSON without a `message` field).
C17_MessageOrRawBody ==
    mpc = "raised" =>
        /\ mmessage.status = mstatus
        /\ IF mbody.form = "object" /\ mbody.has_message
           THEN mmessage.part = "message" /\ mmessage.detail = mbody.message
           ELSE mmessage.part = "text" /\ mmessage.detail = mbody.text

\* C24: after any sequence of operations, failed re-authentications
\* included, the stored access_token and the bearer token of the session's
\* Authorization header denote the same token (a failed re-authentication
\* leaves both as they were).
C24_TokenAndHeaderAgree == access_token = header_token

(***************************************************************************)
(* Properties of the create payloads, checked under RoundTripSpec.         *)
(***************************************************************************)
\* C20 as stated: for the three kinds of record, parsing the create payload
\* built from a record gives a record equal to it on all spec fields, also
\* for a record with an empty webhook and for one with min_nodes or
\* max_nodes set while autoscaling is disabled.
C20_RoundTripIsIdentity ==
    rpc = "parsed" => rparsed = rrecord

\* What the payload keeps of a record: all spec fields, but an empty
\* webhook comes back as None, and min_nodes and max_nodes come back as
\* None when autoscaling is disabled.
Preserved(r) ==
    CASE r.kind = "CloudSpace" ->
            [r EXCEPT !.webhook = IF @ = Some("") THEN None ELSE @]
      [] r.kind = "SpotNodePool" ->
            [r EXCEPT !.min_nodes = IF r.autoscaling_enabled THEN @
                                    ELSE None,
                      !.max_nodes = IF r.autoscaling_enabled THEN @
                                    ELSE None]
      [] OTHER -> r

\* C20, amended: parsing the create payload built from a record gives the
\* record back on all spec fields, except that an empty webhook comes back
\* as None and that min_nodes and max_nodes come back as None when
\* autoscaling is disabled; so the round trip is the identity on the
\* records whose webhook is None or not empty and whose min_nodes and
\* max_nodes are None unless autoscaling is enabled.
C20_RoundTripKeepsWhatIsSent ==
    rpc = "parsed" =>
        /\ rparsed = Preserved(rrecord)
        /\ (/\ rrecord.kind = "CloudSpace" => rrecord.webhook # Some("")
            /\ (rrecord.kind = "SpotNodePool"
                   /\ ~rrecord.autoscaling_enabled) =>
                  (rrecord.min_nodes = None /\ rrecord.max_nodes = None))
              => rparsed = rrecord

\* A spot pool with autoscaling disabled and min_nodes set came back
\* without min_nodes.
C20_Witness ==
    /\ rpc = "parsed"
    /\ rrecord.kind = "SpotNodePool"
    /\ ~rrecord.autoscaling_enabled
    /\ rrecord.min_nodes = Some(1)
    /\ rparsed.min_nodes = None

(***************************************************************************)
(* Property of two callers of one client, checked under ConcurrentSpec.    *)
(***************************************************************************)
\* The callers whose token exchange is at the token endpoint.
InExchange == {c \in Callers : kpc[c] = "exchange"}

\* C23: when two callers issue authenticated requests through one client
\* at the same time and both are answered 401, at most one token exchange
\* is in progress at any time, and the replays of requests that were first
\* sent with the same token carry the same refreshed token.
C23_OneExchangeAtATime ==
    /\ Cardinality(InExchange) <= 1
    /\ \A c, d \in Callers :
          (/\ Len(kwire[c]) = 2
           /\ Len(kwire[d]) = 2
           /\ kwire[c][1] = kwire[d][1]) => kwire[c][2] = kwire[d][2]

(***************************************************************************)
(* Properties of the parsing of API documents, checked under MapSpec.      *)
(***************************************************************************)
\* The required fields as the claim lists them.
ListedRequired(kind) ==
    IF kind = "CloudSpace"
    THEN {"metadata.name", "metadata.namespace", "spec.region",
          "spec.kubernetesVersion"}
    ELSE {"spec.cloudSpace", "spec.serverClass", "spec.desired",
          "spec.bidPrice"}

\* The keys without which the parse function of the kind fails.
NeededKeys(kind) ==
    {"metadata.name", "metadata.namespace"}
    \cup CASE kind = "CloudSpace" -> {"spec.region", "spec.kubernetesVersion"}
           [] kind = "SpotNodePool" ->
                {"spec.cloudSpace", "spec.serverClass", "spec.desired",
                 "spec.bidPrice"}
           [] OTHER ->
                {"spec.cloudSpace", "spec.serverClass", "spec.desired"}

\* C21 as stated: mapping a document to a CloudSpace, SpotNodePool or
\* OnDemandNodePool record fails with a ValidationError exactly when one of
\* the required fields is missing (metadata.name, metadata.namespace,
\* spec.region, spec.kubernetesVersion for a cloudspace; spec.cloudSpace,
\* spec.serverClass, spec.desired, spec.bidPrice for a pool).
C21_FailsWithValidationError ==
    ppc = "mapped" =>
        IF ListedRequired(pdoc.kind) \subseteq pdoc.keys
        THEN pout.outcome = "return"
        ELSE pout.outcome = "raise" /\ pout.class = "ValidationError"

\* C21, amended: mapping a document to a record fails exactly when a key
\* that the parse function reads by subscript is missing: metadata.name or
\* metadata.namespace for every kind, spec.region or spec.kubernetesVersion
\* for a cloudspace, spec.cloudSpace, spec.serverClass or spec.desired for
\* a pool, spec.bidPrice for a spot pool only; it fails with the builtin
\* KeyError (the SDK has no ValidationError). A document with these keys is
\* mapped without error whatever else it lacks, the status section
\* included: every other field gets its default (cni calico, HAControlPlane
\* False, cloud default, autoscaling enabled False, None elsewhere).
C21_FailsWithKeyError ==
    ppc = "mapped" =>
        IF NeededKeys(pdoc.kind) \subseteq pdoc.keys
        THEN /\ pout.outcome = "return"
             /\ \A f \in DOMAIN OptionalOf(pdoc.kind) :
                   pout.value[f] =
                      IF OptionalOf(pdoc.kind)[f][1] \in pdoc.keys
                      THEN <<"wire", OptionalOf(pdoc.kind)[f][1]>>
                      ELSE <<"default", OptionalOf(pdoc.kind)[f][2]>>
             /\ (pdoc.kind = "CloudSpace" /\ "spec.cni" \notin pdoc.keys)
                   => pout.value.cni = <<"default", "calico">>
             /\ (pdoc.kind = "CloudSpace" /\ "status.phase" \notin pdoc.keys)
                   => pout.value.phase = <<"default", "None">>
        ELSE /\ pout.outcome = "raise"
             /\ pout.class = "KeyError"
             /\ pout.status_code = None

\* A cloudspace document that has every key but spec.region was parsed.
C21_Witness ==
    /\ ppc = "mapped"
    /\ pdoc.kind = "CloudSpace"
    /\ pdoc.keys = KeysOf("CloudSpace") \ {"spec.region"}
    /\ pout.outcome = "raise"

(***************************************************************************)
(* Properties of create_environment, checked under EnvSpec.                *)
(***************************************************************************)
\* The calls of the current invocation with the given client method.
CallsOf(op) == {i \in 1 .. Len(elog) : elog[i].op = op}

\* The current invocation has had the outcome of its get_cloudspace.
PastGet == epc \notin {"idle", "get_cloudspace"}

\* C4: when get_cloudspace finds the cloudspace, create_environment issues
\* no create_cloudspace call and returns the found record unchanged; when
\* get_cloudspace fails with 404 it issues exactly one create_cloudspace
\* call; so two successive invocations with the same names, against an API
\* that keeps what it created and did not hold the cloudspace before,
\* issue one create_cloudspace call in total.
C4_CloudspaceAcquiredOnce ==
    /\ (PastGet /\ eget.result.outcome = "return") =>
          /\ CallsOf("create_cloudspace") = {}
          /\ Cardinality(CallsOf("get_cloudspace")) = 1
          /\ eresult.cloudspace =
                Some(CloudSpaceRecord(einput.cloudspace_name,
                                      einput.namespace, eget.phase))
    /\ (PastGet /\ epc # "create_cloudspace"
           /\ eget.result.status_code = Some(404)) =>
          Cardinality(CallsOf("create_cloudspace")) = 1
    /\ (PastGet /\ faithful /\ same_name /\ invocations >= 2) =>
          /\ CallsOf("create_cloudspace") = {}
          /\ create_cs_total = IF preexisting THEN 0 ELSE 1

\* The second invocation with the same names has completed against an API
\* that did not hold the cloudspace at first: one create call in total.
C4_Witness ==
    /\ epc = "done"
    /\ invocations = 2
    /\ faithful /\ same_name /\ ~preexisting
    /\ create_cs_total = 1
    /\ eget.result.outcome = "return"

\* C5 as stated: when the initial get_cloudspace fails with an error other
\* than 404, create_environment raises that error and issues no
\* create_cloudspace and no pool-create call.
C5_OtherGetErrorsPropagate ==
    (PastGet /\ eget.result.outcome = "raise"
       /\ eget.result.status_code # Some(404)) =>
        /\ epc = "raised"
        /\ eerror = eget.result
        /\ CallsOf("create_cloudspace") = {}
        /\ CallsOf("create_spot_node_pool") = {}
        /\ CallsOf("create_on_demand_node_pool") = {}

\* C6: an invocation that completes has issued, after the cloudspace calls,
\* one create_spot_node_pool call per spot configuration and then one
\* create_on_demand_node_pool call per on-demand configuration, in list
\* order, each with the namespace and cloudspace name it was given, whatever
\* earlier invocations created; the returned sequences hold the created
\* pools one-to-one in that order.
C6_OneCreatePerPoolInOrder ==
    epc \in {"sleep", "done"} =>
        LET n == Len(einput.spot_pools)
            m == Len(einput.on_demand_pools)
            k == Len(elog) - (n + m)
            Matches(entry, op, cfg, pool) ==
                /\ entry.op = op
                /\ entry.namespace = einput.namespace
                /\ entry.cloudspace = einput.cloudspace_name
                /\ IF NameMissing(cfg.name)
                   THEN entry.name.uuid > 0 /\ entry.name.call = invocations
                   ELSE entry.name = cfg.name
                /\ pool = [namespace |-> einput.namespace,
                           cloudspace |-> einput.cloudspace_name,
                           name |-> entry.name]
        IN /\ k \in {1, 2}
           /\ \A i \in 1 .. k :
                 elog[i].op \in {"get_cloudspace", "create_cloudspace"}
           /\ eresult.cloudspace # None
           /\ Len(eresult.spot_pools) = n
           /\ Len(eresult.on_demand_pools) = m
           /\ \A i \in 1 .. n :
                 Matches(elog[k + i], "create_spot_node_pool",
                         einput.spot_pools[i], eresult.spot_pools[i])
           /\ \A i \in 1 .. m :
                 Matches(elog[k + n + i], "create_on_demand_node_pool",
                         einput.on_demand_pools[i],
                         eresult.on_demand_pools[i])
           /\ \A i, j \in 1 .. Len(elog) :
                 (i # j /\ elog[i].name.uuid > 0) => elog[i].name # elog[j].name

\* A second invocation has completed with two spot pools and one on-demand
\* pool after an earlier invocation had created pools.
C6_Witness ==
    /\ epc = "done"
    /\ invocations = 2
    /\ pools_created
    /\ Len(eresult.spot_pools) = 2
    /\ Len(eresult.on_demand_pools) = 1
    /\ eget.result.outcome = "return"

\* The create calls the current invocation has issued for the pools of a
\* list, in order.
PoolCalls(op) == SelectSeq(elog, LAMBDA entry : entry.op = op)

\* The k-th create call of a list is named after the k-th configuration:
\* by a fresh generated identifier when that has no name (key absent, or
\* the name empty), by its name unchanged otherwise.
NamedAfterConfigs(list, op) ==
    /\ Len(PoolCalls(op)) <= Len(einput[list])
    /\ \A k \in 1 .. Len(PoolCalls(op)) :
          LET cfg == einput[list][k]
              sent == PoolCalls(op)[k].name
          IN IF ~cfg.has_name \/ NameMissing(cfg.name)
             THEN /\ sent.uuid > 0
                  /\ \A j \in 1 .. Len(elog) :
                        elog[j].name = sent => elog[j] = PoolCalls(op)[k]
             ELSE sent = cfg.name

\* C19 as stated, for the pools of create_environment: a pool
\* configuration without a name (absent or empty) gets a create request
\* under a freshly generated identifier, one with a name gets a create
\* request under that name; so an invocation fails on a pool only with the
\* error of the create call it issued for it.
C19_NamelessPoolGetsGeneratedName ==
    /\ NamedAfterConfigs("spot_pools", "create_spot_node_pool")
    /\ NamedAfterConfigs("on_demand_pools", "create_on_demand_node_pool")
    /\ epc = "raised" => eerror.class # "TypeError"

\* The client methods that create_environment calls.
EnvOps == {"get_cloudspace", "create_cloudspace", "create_spot_node_pool",
           "create_on_demand_node_pool"}

\* The pool create calls of the current invocation, and the pools it has put
\* in its result.
PoolCreateCalls ==
    Len(PoolCalls("create_spot_node_pool"))
        + Len(PoolCalls("create_on_demand_node_pool"))
PoolsInResult == Len(eresult.spot_pools) + Len(eresult.on_demand_pools)

\* C27: create_environment has no rollback: when the k-th pool create call
\* fails, its error leaves create_environment (no result is returned), no
\* delete call is issued, and the cloudspace and the k-1 pools created
\* before stay as they are on the server.
C27_NoRollback ==
    /\ \A i \in 1 .. Len(elog) : elog[i].op \in EnvOps
    /\ PoolCreateCalls # PoolsInResult =>
          /\ PoolCreateCalls = PoolsInResult + 1
          /\ epc = "raised"
          /\ eerror.outcome = "raise"
          /\ elog[Len(elog)].op \in {"create_spot_node_pool",
                                     "create_on_demand_node_pool"}
          /\ ecloudspace # None
          /\ einput.cloudspace_name \in server_cs
    /\ epc = "raised" => eerror.outcome = "raise"
    /\ epc = "done" => eerror = NoResult

\* The cloudspace and a first spot pool were created, the create call of
\* the second spot pool was answered 500 and the invocation has raised.
C27_Witness ==
    /\ epc = "raised"
    /\ eerror.status_code = Some(500)
    /\ CallsOf("create_cloudspace") # {}
    /\ Len(PoolCalls("create_spot_node_pool")) = 2
    /\ Len(eresult.spot_pools) = 1
    /\ einput.cloudspace_name \in server_cs

(***************************************************************************)
(* Properties of cleanup_environment, checked under CleanupSpec.           *)
(***************************************************************************)
\* The names the delete calls of a block were issued for.
DeletedNames(stage) ==
    {clog[i].name : i \in {j \in 1 .. Len(clog) : clog[j].op = DeleteOp(stage)}}

\* The names of the block's kind that the resources hold.
MemberNames(stage) ==
    IF stage = "cloudspace" THEN cres.cloudspace
    ELSE {cres[stage][i] : i \in 1 .. Len(cres[stage])}

\* The names the block's list call returned.
ListedNames(stage) ==
    {clistings[stage][i] : i \in 1 .. Len(clistings[stage])}

CleanupStages == {"spot_pools", "on_demand_pools", "cloudspace"}

DeleteRank(op) ==
    CASE op = "delete_spot_node_pool" -> 1
      [] op = "delete_on_demand_node_pool" -> 2
      [] op = "delete_cloudspace" -> 3
      [] OTHER -> 0

\* C12: in every execution of cleanup_environment the spot-pool delete
\* calls come before the on-demand-pool delete calls and every pool delete
\* call before the cloudspace delete call; when the cloudspace delete call
\* is issued, every listed pool of the resources has had its delete call.
C12_PoolsBeforeCloudspace ==
    /\ \A i, j \in 1 .. Len(clog) :
          (i < j /\ DeleteRank(clog[i].op) > 0 /\ DeleteRank(clog[j].op) > 0)
              => DeleteRank(clog[i].op) <= DeleteRank(clog[j].op)
    /\ DeletedNames("cloudspace") # {} =>
          \A stage \in {"spot_pools", "on_demand_pools"} :
              (ListedNames(stage) \cap MemberNames(stage))
                  \subseteq DeletedNames(stage)

\* A spot pool, an on-demand pool and the cloudspace were deleted, in that
\* order.
C12_Witness ==
    /\ Len(clog) = 6
    /\ clog[2].op = "delete_spot_node_pool"
    /\ clog[4].op = "delete_on_demand_node_pool"
    /\ clog[6].op = "delete_cloudspace"

\* C13: cleanup_environment never raises; when a list or delete call in it
\* fails, with whatever error, it returns False; it returns True only if
\* every list and delete call it issued succeeded.
C13_CleanupNeverRaises ==
    /\ cresult.outcome # "raise"
    /\ cpc = "returned" => cresult \in {Returned("True"), Returned("False")}
    /\ (\E i \in 1 .. Len(clog) : ~clog[i].ok) =>
          /\ cpc = "returned"
          /\ cresult = Returned("False")
          /\ ~clog[Len(clog)].ok
    /\ cresult = Returned("True") => \A i \in 1 .. Len(clog) : clog[i].ok

\* Two calls succeeded, the third one failed and the cleanup returned False.
C13_Witness ==
    /\ cpc = "returned"
    /\ cresult = Returned("False")
    /\ Len(clog) = 3
    /\ clog[1].ok /\ clog[2].ok /\ ~clog[3].ok

\* The calls of the log that come before its i-th.
OpsBefore(i) == {clog[j].op : j \in 1 .. i - 1}

\* C26: cleanup_environment stops at the first list or delete call that
\* fails: no call follows a failed one, and the cloudspace delete call is
\* issued only after all three list calls and every delete call of a
\* matched pool succeeded; so a cleanup that returns False can leave the
\* on-demand pools and the cloudspace undeleted.
C26_StopsAtFirstFailure ==
    /\ \A i \in 1 .. Len(clog) :
          ~clog[i].ok =>
              /\ i = Len(clog)
              /\ cpc = "returned"
              /\ cresult = Returned("False")
    /\ \A i \in 1 .. Len(clog) :
          clog[i].op = "delete_cloudspace" =>
              /\ \A j \in 1 .. i - 1 : clog[j].ok
              /\ {ListOp(stage) : stage \in CleanupStages}
                     \subseteq OpsBefore(i)
              /\ \A stage \in {"spot_pools", "on_demand_pools"} :
                     \A k \in 1 .. Len(Targets(stage, cres, clistings[stage])) :
                        \E j \in 1 .. i - 1 :
                           /\ clog[j].op = DeleteOp(stage)
                           /\ clog[j].name =
                                 Targets(stage, cres, clistings[stage])[k]
                           /\ clog[j].ok

\* The delete call of a spot pool failed: the cleanup returned False without
\* a call for the on-demand pool and the cloudspace that the resources hold.
C26_Witness ==
    /\ cpc = "returned"
    /\ cresult = Returned("False")
    /\ cres.on_demand_pools # <<>>
    /\ cres.cloudspace # None
    /\ Len(clog) = 2
    /\ clog[2].op = "delete_spot_node_pool"
    /\ ~clog[2].ok

(***************************************************************************)
(* Property of a cleanup of what create_environment returned, checked      *)
(* under LifecycleSpec.                                                    *)
(***************************************************************************)
\* C25: cleanup_environment applied to the result of create_environment
\* deletes only resources that the create_environment call created: a
\* delete call for the cloudspace only if the call issued create_cloudspace,
\* and so none for a cloudspace that it found and reused; a delete call for
\* a pool only if the call issued the create call of that pool.
C25_DeletesOnlyWhatItCreated ==
    \A i \in 1 .. Len(clog) :
        /\ clog[i].op = "delete_cloudspace" =>
              CallsOf("create_cloudspace") # {}
        /\ clog[i].op = "delete_spot_node_pool" =>
              \E j \in CallsOf("create_spot_node_pool") :
                 elog[j].name.text = clog[i].name
        /\ clog[i].op = "delete_on_demand_node_pool" =>
              \E j \in CallsOf("create_on_demand_node_pool") :
                 elog[j].name.text = clog[i].name

(***************************************************************************)
(* Property of a repeated cleanup, checked under RerunSpec.                *)
(***************************************************************************)
\* A cleanup is in progress that follows one with the same resources that
\* returned True, and its list calls have so far succeeded and returned
\* what that one left.
Rerun == cpc # "idle" /\ cprior # None

\* The delete calls of the log.
DeleteCalls == {i \in 1 .. Len(clog) : DeleteRank(clog[i].op) > 0}

\* C28: a member of the resources that its listing does not hold gets no
\* delete call and is no failure: a cleanup whose calls all succeed
\* returns True whatever is missing; so a second cleanup with the same
\* resources, against a server on which the deletes of the first took
\* effect, issues no delete call and returns True.
C28_AbsentMembersAreSkipped ==
    /\ \A stage \in CleanupStages :
          DeletedNames(stage) \cap (MemberNames(stage) \ ListedNames(stage))
              = {}
    /\ (/\ cpc = "returned"
        /\ \A i \in 1 .. Len(clog) : clog[i].ok
        /\ cres.cloudspace # None) => cresult = Returned("True")
    /\ Rerun => DeleteCalls = {}
    /\ (Rerun /\ cpc = "returned") =>
          /\ cresult = Returned("True")
          /\ Len(clog) = 3

\* A cleanup that deleted p1 and p2, leaving p3 listed, was repeated with
\* the same resources: three list calls, no delete call, True.
C28_Witness ==
    /\ Rerun
    /\ cpc = "returned"
    /\ cres.spot_pools = <<"p1", "p2">>
    /\ cres.cloudspace # None
    /\ (CHOOSE prior \in cprior : TRUE).left.spot_pools = {"p3"}
    /\ clistings.spot_pools = <<"p3">>
    /\ cresult = Returned("True")

(***************************************************************************)
(* Properties of get_environment_status, checked under StatusSpec.         *)
(***************************************************************************)
\* C14: get_environment_status never raises; when one of its three list
\* calls fails its result holds an `error` field and nothing else (no
\* partial totals); otherwise the result holds the sections cloudspaces,
\* spot_pools and on_demand_pools and no `error` field.
C14_StatusNeverRaises ==
    /\ sresult.outcome # "raise"
    /\ spc = "returned" => sresult.outcome = "return"
    /\ (\E i \in 1 .. Len(slog) : ~slog[i].ok) =>
          /\ spc = "returned"
          /\ ~slog[Len(slog)].ok
          /\ DOMAIN sresult.value = {"error"}
    /\ (spc = "returned" /\ \A i \in 1 .. Len(slog) : slog[i].ok) =>
          /\ Len(slog) = 3
          /\ DOMAIN sresult.value =
                {"cloudspaces", "spot_pools", "on_demand_pools"}
          /\ sresult.value.cloudspaces.count = Len(slists.cloudspaces)
          /\ sresult.value.spot_pools.count = Len(slists.spot_pools)
          /\ sresult.value.on_demand_pools.count =
                Len(slists.on_demand_pools)

\* Two list calls succeeded and returned resources, the third failed: the
\* result is the error field alone.
C14_Witness ==
    /\ spc = "returned"
    /\ Len(slog) = 3
    /\ ~slog[3].ok
    /\ Len(slists.cloudspaces) > 0
    /\ Len(slists.spot_pools) > 0
    /\ DOMAIN sresult.value = {"error"}

\* The sum of the first n values of f.
RECURSIVE SumTo(_, _)
SumTo(f, n) == IF n = 0 THEN 0 ELSE f[n] + SumTo(f, n - 1)

\* The three list calls of the status succeeded and the report is returned.
StatusSucceeded ==
    /\ spc = "returned"
    /\ Len(slog) = 3
    /\ \A i \in 1 .. 3 : slog[i].ok

\* C22: when get_environment_status succeeds, each `count` is the length of
\* the listing of its kind, cloudspaces.ready the number of listed
\* cloudspaces whose phase is "Ready", each total_desired the sum of the
\* listed pools' desired, and total_won and total_reserved the sums of
\* won_count and reserved_count with an absent count adding 0.
C22_TotalsAreSums ==
    StatusSucceeded =>
        LET report == sresult.value
            Desired(pools) == [i \in 1 .. Len(pools) |-> pools[i].desired]
            Counted(pools) ==
                [i \in 1 .. Len(pools) |->
                    IF pools[i].count = Some(1) THEN 1 ELSE 0]
        IN /\ sresult.outcome = "return"
           /\ report.cloudspaces.count = Len(slists.cloudspaces)
           /\ report.cloudspaces.ready =
                 Cardinality({i \in 1 .. Len(slists.cloudspaces) :
                                 slists.cloudspaces[i].phase = Some("Ready")})
           /\ report.spot_pools.count = Len(slists.spot_pools)
           /\ report.spot_pools.total_desired =
                 SumTo(Desired(slists.spot_pools), Len(slists.spot_pools))
           /\ report.spot_pools.total_won =
                 SumTo(Counted(slists.spot_pools), Len(slists.spot_pools))
           /\ report.on_demand_pools.count = Len(slists.on_demand_pools)
           /\ report.on_demand_pools.total_desired =
                 SumTo(Desired(slists.on_demand_pools),
                       Len(slists.on_demand_pools))
           /\ report.on_demand_pools.total_reserved =
                 SumTo(Counted(slists.on_demand_pools),
                       Len(slists.on_demand_pools))

\* A status of two cloudspaces, one of them Ready, and two spot pools, one
\* of them without won_count: ready 1, total_desired 3, total_won 1.
C22_Witness ==
    /\ StatusSucceeded
    /\ Len(slists.cloudspaces) = 2
    /\ sresult.value.cloudspaces.ready = 1
    /\ slists.spot_pools = <<[desired |-> 2, count |-> None],
                             [desired |-> 1, count |-> Some(1)]>>
    /\ sresult.value.spot_pools.total_desired = 3
    /\ sresult.value.spot_pools.total_won = 1

(***************************************************************************)
(* Properties of the readiness wait, checked under WaitSpec (C10 under     *)
(* WaitFairSpec).                                                          *)
(***************************************************************************)
\* The wait has raised the error of its last line.
RaisedNotReady ==
    /\ wpc = "raised"
    /\ wresult.outcome = "raise"
    /\ wresult.value = "did not become ready within timeout"

\* The latest poll returned a record that is Ready without being Healthy.
SawReadyNotHealthy ==
    /\ last_obs.result.outcome = "return"
    /\ last_obs.result.value = "record"
    /\ last_obs.phase = Some("Ready")
    /\ last_obs.health # Some("Healthy")

\* C7: the wait returns a cloudspace only if the poll that produced it saw
\* phase Ready and health Healthy together; a poll that sees Ready with any
\* other health does not return: the wait sleeps and then polls again or
\* raises its timeout error.
C7_ReturnsOnlyReadyAndHealthy ==
    /\ wpc = "returned" =>
          /\ last_obs.phase = Some("Ready")
          /\ last_obs.health = Some("Healthy")
          /\ wresult = last_obs.result
          /\ wresult.outcome = "return"
          /\ wresult.value = "record"
    /\ SawReadyNotHealthy =>
          \/ wpc = "sleep" /\ sleeps = polls - 1
          \/ wpc \in {"test", "poll"} /\ sleeps = polls
          \/ RaisedNotReady

\* A poll saw Ready with health Degraded and the wait is about to sleep.
C7_Witness ==
    /\ wpc = "sleep"
    /\ last_obs.phase = Some("Ready")
    /\ last_obs.health = Some("Degraded")
    /\ polls >= 2

\* C8: the first poll that sees phase Failed makes the wait raise, with no
\* further get_cloudspace call and no sleep, also within the timeout.
C8_FailedRaisesAtOnce ==
    last_obs.phase = Some("Failed") =>
        /\ wpc = "raised"
        /\ wresult.outcome = "raise"
        /\ wresult.class = "RackspaceSpotAPIError"
        /\ wresult.value = "failed to deploy"
        /\ sleeps = polls - 1

\* The second poll saw Failed and the wait raised within the timeout.
C8_Witness ==
    /\ wpc = "raised"
    /\ last_obs.phase = Some("Failed")
    /\ polls = 2
    /\ sleeps = 1
    /\ clock - start_time < timeout

\* C9: a 404 of get_cloudspace is never raised to the caller of the wait: a
\* sleep of poll_interval follows it, then another poll unless the timeout
\* has elapsed; so a cloudspace that is absent for the first polls and Ready
\* and Healthy afterwards is returned.
C9_NotFoundIsWaitedOut ==
    /\ last_obs.result.status_code = Some(404) =>
          \/ wpc = "sleep" /\ sleeps = polls - 1
          \/ wpc \in {"test", "poll"} /\ sleeps = polls
          \/ RaisedNotReady /\ sleeps = polls
                /\ clock - start_time >= timeout
    /\ wpc = "raised" => wresult.status_code # Some(404)
    /\ wpc # "idle" => clock - start_time >= sleeps * poll_interval

\* Two polls were answered 404, the third found the cloudspace Ready and
\* Healthy and the wait returned it.
C9_Witness ==
    /\ wpc = "returned"
    /\ not_found_polls = 2
    /\ polls = 3
    /\ wresult.value = "record"

\* The wait has ended and its latest poll, if any, decided nothing: it was
\* answered 404 or found a cloudspace neither Ready and Healthy nor Failed.
EndedUndecided ==
    /\ wpc \in {"returned", "raised"}
    /\ \/ last_obs = NoObservation
       \/ last_obs.result.status_code = Some(404)
       \/ /\ last_obs.result.outcome = "return"
          /\ last_obs.result.value = "record"
          /\ ~(last_obs.phase = Some("Ready")
                /\ last_obs.health = Some("Healthy"))
          /\ last_obs.phase # Some("Failed")

\* C10 as stated: a wait that sees the cloudspace neither Ready and Healthy
\* nor Failed ends by raising a TimeoutError, a kind other than the API
\* error, and not before the timeout has elapsed.
C10_RaisesTimeoutErrorKind ==
    EndedUndecided =>
        /\ wpc = "raised"
        /\ wresult.class = "TimeoutError"
        /\ clock - start_time >= timeout

\* C10, amended: a wait whose polls see the cloudspace neither Ready and
\* Healthy nor Failed (and fail with no error but 404) ends, and it ends by
\* raising the SDK's API error class without status code, the same class as
\* every API error; it never raises that error before the timeout has
\* elapsed.
C10_EndsWithNotReadyError ==
    /\ [](EndedUndecided =>
            /\ RaisedNotReady
            /\ wresult.class = "RackspaceSpotAPIError"
            /\ wresult.status_code = None)
    /\ [](RaisedNotReady => clock - start_time >= timeout)
    /\ (wpc = "test" ~> wpc \in {"returned", "raised"})

\* The wait polled twice, slept twice and raised its timeout error.
C10_Witness ==
    /\ RaisedNotReady
    /\ polls = 2
    /\ sleeps = 2
    /\ clock - start_time >= timeout

\* C29: a get_cloudspace failure other than a 404 (a 500, a 401 left after
\* the replay, a network failure, an error of another class) is raised to
\* the caller of the wait as it is, with no further poll and no sleep, also
\* within the timeout.
C29_OtherFailuresPropagate ==
    (/\ last_obs.result.outcome = "raise"
     /\ last_obs.result.status_code # Some(404)) =>
        /\ wpc = "raised"
        /\ wresult = last_obs.result
        /\ sleeps = polls - 1

\* The second poll failed with a 500 and the wait raised within the timeout.
C29_Witness ==
    /\ wpc = "raised"
    /\ last_obs.result.status_code = Some(500)
    /\ polls = 2
    /\ sleeps = 1
    /\ clock - start_time < timeout

\* The least number of intervals of length p that cover t.
Ceil(t, p) == (t + p - 1) \div p

\* C30: a wait with timeout > 0 polls at least once before it can raise its
\* timeout error, and (poll_interval > 0) polls at most
\* ceil(timeout / poll_interval) times; a wait with timeout <= 0 polls not
\* at all and raises the timeout error, whatever state the cloudspace is in.
C30_PollsWithinTimeout ==
    /\ (RaisedNotReady /\ timeout > 0) => polls >= 1
    /\ (wpc # "idle" /\ timeout > 0 /\ poll_interval > 0) =>
          polls <= Ceil(timeout, poll_interval)
    /\ (wpc # "idle" /\ timeout <= 0) =>
          /\ polls = 0
          /\ wpc \in {"test", "raised"}
          /\ wpc = "raised" => RaisedNotReady

\* A wait of timeout 3 and interval 2 used both of its polls and timed out.
C30_Witness ==
    /\ RaisedNotReady
    /\ timeout = 3
    /\ poll_interval = 2
    /\ polls = 2
====
